---- MODULE Spec2Model ----
(***************************************************************************)
(* Model of the dotcodeschool CLI test registry (src/src/db.rs), the       *)
(* Monitor that opens and reconciles it (src/src/monitor.rs) and the       *)
(* list-driven runner state machine (src/src/runner/v1.rs).                *)
(*                                                                         *)
(* Strings and store keys are sequences of bytes, so that the two ways the *)
(* code turns a String into a key (its raw bytes, or its SCALE encoding    *)
(* with a compact length prefix) are different values, as they are in the  *)
(* sled tree.                                                              *)
(***************************************************************************)
EXTENDS Integers, Sequences, FiniteSets, TLC

(***************************************************************************)
(* Bounds of the model.                                                    *)
(***************************************************************************)
\* number of CLI invocations in one behaviour
MaxInvocations == 2
\* largest modification time of the working directory
MaxTime == 1
\* number of tests of a course definition in the single-run model
MaxRunTests == 5
\* number of tests of a course definition in the reconciliation model
MaxReconcileTests == 2
\* number of sections of a course definition in the validation model
MaxSections == 2
\* number of stages of a course file, and of lessons of a stage, in the
\* course-tree runner model
MaxStages == 2
MaxLessons == 2
\* number of tests the course-tree runner executes in one behaviour
MaxExecutions == 6
\* calls of run() made on a machine that is already finished
MaxFinishRuns == 2

\* Option
None == [tag |-> "None"]
Some(x) == [tag |-> "Some", some |-> x]

(***************************************************************************)
(* Byte strings.                                                           *)
(***************************************************************************)
\* "a", "b", "c": the test names of the course definitions
NameA == <<97>>
NameB == <<98>>
NameC == <<99>>
\* "A": a test name that differs from "a" by letter case only
NameUpperA == <<65>>
\* "l", "s", "x": lesson, section and course names
LessonName == <<108>>
SectionName == <<115>>
CourseName == <<120>>

\* db.rs:18-21
KEY_TIME == <<116, 105, 109, 101, 95, 108, 97, 115, 116, 95, 109, 111, 100,
              105, 102, 105, 101, 100>>
KEY_TESTS == <<116, 101, 115, 116, 115>>
KEY_STAGGERED == <<115, 116, 97, 103, 103, 101, 114, 101, 100>>
KEY_METADATA == <<109, 101, 116, 97, 100, 97, 116, 97>>

\* str::to_lowercase on ASCII bytes
LowerByte(b) == IF b >= 65 /\ b <= 90 THEN b + 32 ELSE b
ToLowercase(s) == [i \in 1..Len(s) |-> LowerByte(s[i])]

\* parity_scale_codec Encode for String: compact length prefix (single byte
\* mode, length < 64), then the bytes
ScaleEncode(s) == <<4 * Len(s)>> \o s

IsPrefix(p, s) == Len(p) <= Len(s) /\ SubSeq(s, 1, Len(p)) = p

\* byte-wise lexicographic order, the iteration order of a sled tree
RECURSIVE LexLess(_, _)
LexLess(a, b) ==
    IF a = <<>> THEN b # <<>>
    ELSE IF b = <<>> THEN FALSE
    ELSE IF Head(a) # Head(b) THEN Head(a) < Head(b)
    ELSE LexLess(Tail(a), Tail(b))

RECURSIVE SortKeys(_)
SortKeys(S) ==
    IF S = {} THEN <<>>
    ELSE LET m == CHOOSE x \in S : \A y \in S \ {x} : LexLess(x, y)
         IN <<m>> \o SortKeys(S \ {m})

RECURSIVE Concat(_)
Concat(ss) == IF ss = <<>> THEN <<>> ELSE Head(ss) \o Concat(Tail(ss))

Reverse(s) == [i \in 1..Len(s) |-> s[Len(s) + 1 - i]]

Range(s) == {s[i] : i \in 1..Len(s)}

\* IndexSet from an iterator: first occurrence of each element, in order
RECURSIVE Dedup(_)
Dedup(s) ==
    IF s = <<>> THEN <<>>
    ELSE LET r == Dedup(SubSeq(s, 1, Len(s) - 1))
             x == s[Len(s)]
         IN IF x \in Range(r) THEN r ELSE Append(r, x)

\* IndexSet::difference: the elements of a that are not in b, in a's order
RECURSIVE Difference(_, _)
Difference(a, b) ==
    IF a = <<>> THEN <<>>
    ELSE IF Head(a) \in Range(b) THEN Difference(Tail(a), b)
    ELSE <<Head(a)>> \o Difference(Tail(a), b)

(***************************************************************************)
(* The sled tree: a finite map from byte-string keys to typed values.      *)
(***************************************************************************)
TestVal(t) == [tag |-> "TestState", test |-> t]
KeysVal(ks) == [tag |-> "VecString", keys |-> ks]
U32Val(n) == [tag |-> "u32", num |-> n]
I64Val(n) == [tag |-> "i64", time |-> n]
MetaVal(m) == [tag |-> "CourseMetaData", meta |-> m]
\* bytes that decode to nothing
CorruptVal == [tag |-> "Corrupt"]

\* sled::Tree::get
Get(t, k) == IF k \in DOMAIN t THEN t[k] ELSE None
\* sled::Tree::insert
Insert(t, k, v) == [x \in (DOMAIN t) \cup {k} |-> IF x = k THEN v ELSE t[x]]
\* sled::Tree::remove
Remove(t, k) == [x \in (DOMAIN t) \ {k} |-> t[x]]

EmptyTree == [x \in {} |-> None]

\* a sequence of writes, applied in order
RECURSIVE ApplyOps(_, _)
ApplyOps(t, ops) ==
    IF ops = <<>> THEN t
    ELSE LET op == Head(ops)
             t1 == IF op.op = "insert" THEN Insert(t, op.key, op.val)
                   ELSE Remove(t, op.key)
         IN ApplyOps(t1, Tail(ops))

(***************************************************************************)
(* Course definitions (models.rs) and the tests they list.                 *)
(***************************************************************************)
JsonTest(name, optional) == [name |-> name, slug |-> name, optional |-> optional]

\* TestState built by list_tests for one test (models.rs:128-153)
NewTestState(section, lesson, test) ==
    [name |-> test.name,
     slug |-> test.slug,
     path |-> << [link |-> "Link", name |-> section.name],
                 [link |-> "Link", name |-> lesson.name],
                 [link |-> IF test.optional THEN "LinkOptional" ELSE "Link",
                  name |-> test.name],
                 [link |-> IF ~test.optional /\ test.optional
                           THEN "LinkOptional" ELSE "Link",
                  name |-> test.name] >>,
     passed |-> "Unknown",
     optional |-> test.optional]

\* key of a test (models.rs:114-120)
TestKey(course_name, section, lesson, test) ==
    Concat(<< ToLowercase(test.name), ToLowercase(lesson.name),
              ToLowercase(section.name), ToLowercase(course_name) >>)

\* IndexMap::insert: a key already present keeps its position and takes the
\* new value
IndexMapInsert(m, k, v) ==
    IF \E i \in 1..Len(m) : m[i].key = k
    THEN [i \in 1..Len(m) |-> IF m[i].key = k THEN [key |-> k, val |-> v]
                              ELSE m[i]]
    ELSE Append(m, [key |-> k, val |-> v])

RECURSIVE FoldTests(_, _, _, _, _)
FoldTests(acc, course_name, section, lesson, tests) ==
    IF tests = <<>> THEN acc
    ELSE FoldTests(IndexMapInsert(acc,
                       TestKey(course_name, section, lesson, Head(tests)),
                       NewTestState(section, lesson, Head(tests))),
                   course_name, section, lesson, Tail(tests))

RECURSIVE FoldLessons(_, _, _, _)
FoldLessons(acc, course_name, section, lessons) ==
    IF lessons = <<>> THEN acc
    ELSE LET lesson == Head(lessons)
             acc1 == IF lesson.tests.tag = "None" THEN acc
                     ELSE FoldTests(acc, course_name, section, lesson,
                                    lesson.tests.some)
         IN FoldLessons(acc1, course_name, section, Tail(lessons))

RECURSIVE FoldSections(_, _, _)
FoldSections(acc, course_name, sections) ==
    IF sections = <<>> THEN acc
    ELSE FoldSections(FoldLessons(acc, course_name, Head(sections),
                                  Head(sections).lessons),
                      course_name, Tail(sections))

\* TesterDefinition::list_tests (models.rs:106-162)
list_tests(tester) == FoldSections(<<>>, tester.course_name, tester.sections)

IndexMapKeys(m) == [i \in 1..Len(m) |-> m[i].key]
\* IndexMap::get(key).unwrap()
IndexMapGet(m, k) == m[CHOOSE i \in 1..Len(m) : m[i].key = k].val

\* the course definitions served by the backend in the invocation model:
\* one section, one lesson, any ordered choice of distinct tests among
\* a (mandatory) and c (optional)
AllTests == {JsonTest(NameA, FALSE), JsonTest(NameC, TRUE)}

InjectiveSeqs(S) ==
    UNION {{s \in [1..n -> S] : \A i, j \in 1..n : i # j => s[i] # s[j]}
           : n \in 0..Cardinality(S)}

TesterOf(tests) ==
    [course_name |-> CourseName,
     sections |-> << [name |-> SectionName,
                      lessons |-> << [name |-> LessonName,
                                      tests |-> IF tests = <<>> THEN None
                                                ELSE Some(tests)] >>] >>]

Definitions == {TesterOf(ts) : ts \in InjectiveSeqs(AllTests)}

\* the course definitions of the single-run model: one section, one lesson,
\* up to MaxRunTests tests named a, b, c, ..., each optional or not
RunTestSeqs ==
    UNION {{[i \in 1..n |-> JsonTest(<<96 + i>>, i \in opt)]
            : opt \in SUBSET (1..n)} : n \in 0..MaxRunTests}

RunDefinitions == {TesterOf(ts) : ts \in RunTestSeqs}

\* the course definitions of the reconciliation model: one section, one
\* lesson, up to MaxReconcileTests tests among a, A and c, repeats allowed
ReconcileTests ==
    {JsonTest(NameA, FALSE), JsonTest(NameUpperA, TRUE), JsonTest(NameC, TRUE)}

ReconcileDefinitions ==
    {TesterOf(ts) : ts \in UNION {[1..n -> ReconcileTests]
                                  : n \in 0..MaxReconcileTests}}

\* the course definitions of the ordering model: one section, one lesson,
\* any ordered choice of distinct tests among aa, ab (optional) and b, so
\* that the name `a` of NameArgs is a prefix of two identities
OrderTests ==
    {JsonTest(<<97, 97>>, FALSE), JsonTest(<<97, 98>>, TRUE),
     JsonTest(NameB, FALSE)}

OrderDefinitions == {TesterOf(ts) : ts \in InjectiveSeqs(OrderTests)}

(***************************************************************************)
(* Slugs (db.rs:178-188) and the course trees the validator walks.         *)
(***************************************************************************)
\* the 2-byte digest of a phrase.  Blake2b is stood for by a polynomial
\* digest with the same domain and range (bytes to 16 bits)
RECURSIVE Digest(_, _)
Digest(h, bytes) ==
    IF bytes = <<>> THEN h
    ELSE Digest((h * 31 + Head(bytes)) % 65536, Tail(bytes))

\* one character of hex::encode
HexDigit(n) == IF n < 10 THEN 48 + n ELSE 87 + n

\* db::hash: the words are joined without separator, digested to HASH_SIZE
\* = 2 bytes and hex-encoded
hash(words) ==
    LET d == Digest(0, Concat(words))
    IN <<HexDigit(d \div 4096), HexDigit((d \div 256) % 16),
         HexDigit((d \div 16) % 16), HexDigit(d % 16)>>

\* format!("0x{}", hash(..)) (validator/v1.rs:113-116, 198-206, 261-270)
SlugExpected(words) == <<48, 120>> \o hash(words)

\* names by position: sections s, t, ...; lessons l, m, ...; suites p, q,
\* ...; tests a, b, ...
SectionNameAt(i) == <<114 + i>>
LessonNameAt(j) == <<107 + j>>
SuiteNameAt(k) == <<111 + k>>
TestNameAt(l) == <<96 + l>>

\* a course tree with the slug of every node equal to the hash of its name
\* path; shape gives, per section and lesson, None (no suites) or the
\* number of tests of each suite
WellFormedTest(cn, sn, ln, un, l) ==
    [name |-> TestNameAt(l),
     slug |-> SlugExpected(<<cn, sn, ln, un, TestNameAt(l)>>),
     optional |-> FALSE]

WellFormedSuite(cn, sn, ln, k, count) ==
    [name |-> SuiteNameAt(k),
     slug |-> SlugExpected(<<cn, sn, ln, SuiteNameAt(k)>>),
     optional |-> FALSE,
     tests |-> [l \in 1..count |->
                   WellFormedTest(cn, sn, ln, SuiteNameAt(k), l)]]

WellFormedLesson(cn, sn, j, shape) ==
    [name |-> LessonNameAt(j),
     slug |-> SlugExpected(<<cn, sn, LessonNameAt(j)>>),
     tests |-> None,
     suites |-> IF shape.tag = "None" THEN None
                ELSE Some([k \in 1..Len(shape.some) |->
                              WellFormedSuite(cn, sn, LessonNameAt(j), k,
                                              shape.some[k])])]

WellFormedSection(cn, i, shape) ==
    [name |-> SectionNameAt(i),
     slug |-> SlugExpected(<<cn, SectionNameAt(i)>>),
     lessons |-> [j \in 1..Len(shape) |->
                     WellFormedLesson(cn, SectionNameAt(i), j, shape[j])]]

WellFormed(shape) ==
    [course_name |-> CourseName,
     sections |-> [i \in 1..Len(shape) |->
                      WellFormedSection(CourseName, i, shape[i])]]

\* the shapes of a section: a lesson without suites; a lesson with a suite
\* of two tests, then a lesson without suites; a lesson without suites,
\* then a lesson with two suites of one test; a lesson with an empty list
\* of suites
SectionShapes ==
    { <<None>>,
      <<Some(<<2>>), None>>,
      <<None, Some(<<1, 1>>)>>,
      <<Some(<<>>)>> }

CheckShapes == UNION {[1..n -> SectionShapes] : n \in 1..MaxSections}

\* the nodes of a tester definition below the course, as index paths
\* (section, lesson, suite, test), indices from 1
NodePaths(t) ==
    LET S == 1..Len(t.sections)
        L(i) == 1..Len(t.sections[i].lessons)
        hasSuites(i, j) == t.sections[i].lessons[j].suites.tag = "Some"
        U(i, j) == IF hasSuites(i, j)
                   THEN 1..Len(t.sections[i].lessons[j].suites.some)
                   ELSE {}
        T(i, j, k) == 1..Len(t.sections[i].lessons[j].suites.some[k].tests)
    IN {<<i>> : i \in S}
       \cup UNION {{<<i, j>> : j \in L(i)} : i \in S}
       \cup UNION {UNION {{<<i, j, k>> : k \in U(i, j)} : j \in L(i)}
                   : i \in S}
       \cup UNION {UNION {UNION {{<<i, j, k, l>> : l \in T(i, j, k)}
                                 : k \in U(i, j)} : j \in L(i)} : i \in S}

\* the node of a tester definition at an index path
NodeAt(t, p) ==
    LET section == t.sections[p[1]]
    IN IF Len(p) = 1 THEN section
       ELSE LET lesson == section.lessons[p[2]]
            IN IF Len(p) = 2 THEN lesson
               ELSE LET suite == lesson.suites.some[p[3]]
                    IN IF Len(p) = 3 THEN suite ELSE suite.tests[p[4]]

\* a name edited in the course file: "z" appended
Renamed(name) == name \o <<122>>
\* a slug edited in the course file: the "0x" prefix dropped
Reslugged(slug) == SubSeq(slug, 3, Len(slug))

\* the definition with one field (name or slug) of the node at p edited
EditNode(t, p, field) ==
    LET node == NodeAt(t, p)
        edited == [node EXCEPT ![field] = IF field = "name"
                                          THEN Renamed(@)
                                          ELSE Reslugged(@)]
    IN IF Len(p) = 1 THEN [t EXCEPT !.sections[p[1]] = edited]
       ELSE IF Len(p) = 2
       THEN [t EXCEPT !.sections[p[1]].lessons[p[2]] = edited]
       ELSE IF Len(p) = 3
       THEN [t EXCEPT !.sections[p[1]].lessons[p[2]].suites.some[p[3]] =
                         edited]
       ELSE [t EXCEPT !.sections[p[1]].lessons[p[2]].suites.some[p[3]]
                         .tests[p[4]] = edited]

\* the tester definitions given to `check`: well formed, or well formed
\* but for the name or the slug of one node
CheckDefinitions ==
    UNION {LET t == WellFormed(shape)
           IN {t}
              \cup {EditNode(t, p, "name") : p \in NodePaths(t)}
              \cup {EditNode(t, p, "slug") : p \in NodePaths(t)}
           : shape \in CheckShapes}

\* the courses loaded by load_course: well formed, renamed or with an
\* edited slug
CheckCourses ==
    LET slug == SlugExpected(<<CourseName>>)
    IN {[name |-> CourseName, slug |-> slug],
        [name |-> Renamed(CourseName), slug |-> slug],
        [name |-> CourseName, slug |-> Reslugged(slug)]}

\* CourseMetaData returned by fetch_metadata
Metadata == [ws_url |-> "ws", logstream_id |-> "id", tester_url |-> "repo"]

(***************************************************************************)
(* Registry operations (db.rs).                                            *)
(***************************************************************************)
\* db_should_update answering true also when the modification time equals
\* the watermark
db_should_update_inclusive(t, time_last_modified) ==
    LET stored == Get(t, KEY_TIME)
    IN [tree |-> Insert(t, KEY_TIME, I64Val(time_last_modified)),
        should_update |-> IF stored.tag = "None" THEN TRUE
                          ELSE time_last_modified >= stored.time]

\* db_should_update (db.rs:204-229): the watermark is read, then always
\* overwritten with the modification time, then compared
db_should_update(t, time_last_modified) ==
    LET stored == Get(t, KEY_TIME)
    IN [tree |-> Insert(t, KEY_TIME, I64Val(time_last_modified)),
        should_update |-> IF stored.tag = "None" THEN TRUE
                          ELSE time_last_modified > stored.time]

InsertOp(k, v) == [op |-> "insert", key |-> k, val |-> v]
RemoveOp(k) == [op |-> "remove", key |-> k, val |-> None]

\* db_update with every test of the new definition inserted, also those
\* already stored
db_update_reinserting(t, tests_new, metadata) ==
    <<InsertOp(KEY_METADATA, MetaVal(metadata))>>
    \o [i \in 1..Len(tests_new) |->
           InsertOp(tests_new[i].key, TestVal(tests_new[i].val))]
    \o <<InsertOp(KEY_TESTS, KeysVal(IndexMapKeys(tests_new)))>>

\* db_update with the new identities appended to the stored index
db_update_appending(t, tests_new, metadata) ==
    LET stored == Get(t, KEY_TESTS)
        tests_keys_old == IF stored.tag # "None" THEN Dedup(stored.keys)
                          ELSE <<>>
        tests_keys_unkown == Difference(IndexMapKeys(tests_new),
                                        tests_keys_old)
    IN <<InsertOp(KEY_METADATA, MetaVal(metadata))>>
       \o [i \in 1..Len(tests_keys_unkown) |->
              InsertOp(tests_keys_unkown[i],
                       TestVal(IndexMapGet(tests_new, tests_keys_unkown[i])))]
       \o <<InsertOp(KEY_TESTS, KeysVal(tests_keys_old \o tests_keys_unkown))>>

\* db_update (db.rs:231-299), as the sequence of writes it issues
db_update(t, tests_new, metadata) ==
    LET stored == Get(t, KEY_TESTS)
        tests_keys_new == IndexMapKeys(tests_new)
        writeMeta == <<InsertOp(KEY_METADATA, MetaVal(metadata))>>
        writeIndex == <<InsertOp(KEY_TESTS, KeysVal(tests_keys_new))>>
    IN IF stored.tag # "None"
       THEN LET tests_keys_old == Dedup(stored.keys)
                test_keys_deprecated ==
                    Difference(tests_keys_old, tests_keys_new)
                tests_keys_unkown ==
                    Difference(tests_keys_new, tests_keys_old)
            IN writeMeta
               \o [i \in 1..Len(test_keys_deprecated) |->
                      RemoveOp(ScaleEncode(test_keys_deprecated[i]))]
               \o [i \in 1..Len(tests_keys_unkown) |->
                      InsertOp(tests_keys_unkown[i],
                               TestVal(IndexMapGet(tests_new,
                                                   tests_keys_unkown[i])))]
               \o writeIndex
       ELSE writeMeta
            \o [i \in 1..Len(tests_new) |->
                   InsertOp(tests_new[i].key, TestVal(tests_new[i].val))]
            \o writeIndex

(***************************************************************************)
(* Fetches (monitor.rs).  A fetch returns a list of Result entries, which  *)
(* into_runner collects into one Result.                                   *)
(***************************************************************************)
\* TestState::decode of a stored value, paired with its key
DecodeEntry(k, v) ==
    IF v.tag = "TestState" THEN [ok |-> TRUE, key |-> k, test |-> v.test]
    ELSE [ok |-> FALSE, key |-> k, test |-> None]

\* fold_while answering what it had accumulated when a record is missing
RECURSIVE AccumulateKeysKeeping(_, _, _)
AccumulateKeysKeeping(t, keys, acc) ==
    IF keys = <<>> THEN acc
    ELSE LET query == Get(t, Head(keys))
         IN IF query.tag = "None" THEN acc
            ELSE AccumulateKeysKeeping(t, Tail(keys),
                                       Append(acc, DecodeEntry(Head(keys),
                                                               query)))

\* fold_while over the identities of the index: a missing record discards
\* what was accumulated and stops (monitor.rs:372-384, 405-417)
RECURSIVE AccumulateKeys(_, _, _)
AccumulateKeys(t, keys, acc) ==
    IF keys = <<>> THEN acc
    ELSE LET query == Get(t, Head(keys))
         IN IF query.tag = "None" THEN <<>>
            ELSE AccumulateKeys(t, Tail(keys),
                                Append(acc, DecodeEntry(Head(keys), query)))

\* the identities stored under KEY_TESTS, none when the key is absent
StoredTestNames(t) ==
    LET stored == Get(t, KEY_TESTS)
    IN IF stored.tag = "VecString" THEN stored.keys ELSE <<>>

\* take yielding one element more
TakeOneMore(s, n) == SubSeq(s, 1, IF n + 1 < Len(s) THEN n + 1 ELSE Len(s))

\* Iterator::take
Take(s, n) == SubSeq(s, 1, IF n < Len(s) THEN n ELSE Len(s))

\* Monitor::tests_accumulate_all (monitor.rs:358-387)
tests_accumulate_all(t) == AccumulateKeys(t, StoredTestNames(t), <<>>)

\* Monitor::tests_accumulate_some (monitor.rs:389-420)
tests_accumulate_some(t, n) ==
    AccumulateKeys(t, Take(StoredTestNames(t), n), <<>>)

\* Monitor::tests_accumulate_matching (monitor.rs:337-356): every entry of
\* the tree whose key starts with the prefix, in key order
tests_accumulate_matching(test_name, t) ==
    LET keys == SortKeys({k \in DOMAIN t : IsPrefix(test_name, k)})
    IN [i \in 1..Len(keys) |-> DecodeEntry(keys[i], t[keys[i]])]

EntryDecoded(e) == e.ok

\* collect keeping the entries that decoded
CollectDecoded(entries) ==
    LET decoded == SelectSeq(entries, EntryDecoded)
    IN [ok |-> TRUE,
        tests |-> [i \in 1..Len(decoded) |->
                      [key |-> decoded[i].key, test |-> decoded[i].test]]]

\* collect::<Result<Vec<_>, _>>()
Collect(entries) ==
    IF \E i \in 1..Len(entries) : ~entries[i].ok
    THEN [ok |-> FALSE, tests |-> <<>>]
    ELSE [ok |-> TRUE,
          tests |-> [i \in 1..Len(entries) |->
                        [key |-> entries[i].key, test |-> entries[i].test]]]

\* the key looked for by `test <name>` (monitor.rs:93-95)
PathToKey(segments) == Concat(Reverse(segments))

(***************************************************************************)
(* State.                                                                  *)
(***************************************************************************)
VARIABLES
    tree,             \* the sled tree of the course (persists)
    mtime,            \* modification time of the working directory
    pc,               \* "idle" | "monitor" | "runner" | "validator": where
                      \* main() is
    invocations,      \* number of invocations started
    tester,           \* Monitor.tester, the definition loaded
    reconciled,       \* while the Monitor exists: db_update ran to completion
    tests_old,        \* while the Monitor exists: the identities stored before
    tests,            \* RunnerV1.tests: (key, TestState) snapshots
    success,          \* RunnerV1.success
    state,            \* RunnerV1.state
    built,            \* what the hook closures captured when built
    fetched,          \* the entries the fetch of into_runner returned
    frames,           \* frames handed to the websocket, with their outcome
    log,              \* one entry per execution of a test command
    on_pass_calls,    \* number of calls of on_pass
    on_fail_calls,    \* arguments of the calls of on_fail
    on_finish_calls,  \* number of calls of on_finish
    score,            \* the final score printed, in hundredths of a percent
    vstate,           \* ValidatorV1.state
    course,           \* ValidatorV1.course: name and slug of the course
    checked,          \* the nodes the validator printed, with their mark
    exit_code,        \* exit status of the process, -1 while it runs
    command,          \* the command main matched on, "none" before it does
    state_v2,         \* RunnerV2.state
    course_v2,        \* RunnerV2.course: the stages of the course file
    success_v2,       \* RunnerV2.success
    log_v2,           \* index path of each test RunnerV2 executed
    state_l,          \* ListerV1.state
    tests_l,          \* ListerV1.tests: the identities of the index
    listed,           \* the tests the lister printed, with their state
    finish_runs       \* calls of run() answered in Finish or Finished

vars == <<tree, mtime, pc, invocations, tester, reconciled, tests_old, tests,
          success,
          state, built, fetched, frames, log, on_pass_calls, on_fail_calls,
          on_finish_calls, score, vstate, course, checked, exit_code,
          command, state_v2, course_v2, success_v2, log_v2,
          state_l, tests_l, listed, finish_runs>>

checkVars == <<vstate, course, checked>>

v2Vars == <<state_v2, course_v2, success_v2, log_v2>>

listerVars == <<state_l, tests_l, listed, finish_runs>>

runnerVars == <<tests, success, state, built, fetched, frames, log,
                on_pass_calls, on_fail_calls, on_finish_calls, score>>

\* RunnerStateV1 (runner/v1.rs:108-115)
Loaded == [tag |-> "Loaded"]
NewTest(i) == [tag |-> "NewTest", index_test |-> i]
Fail(i, err) == [tag |-> "Fail", index_test |-> i, err |-> err]
Pass == [tag |-> "Pass"]
Finish == [tag |-> "Finish"]
NoRunner == [tag |-> "NoRunner"]

NoBuild == [by |-> "none", staggered |-> 0]

NoValidator == [tag |-> "NoValidator"]
NoLister == [tag |-> "NoLister"]
\* no course file was parsed yet
NoCourseV2 == [stages |-> <<>>]
NoCourse == [name |-> <<>>, slug |-> <<>>]

\* no validator exists yet in this invocation
ValidatorReset ==
    /\ vstate = NoValidator
    /\ course = NoCourse
    /\ checked = <<>>

\* no runner exists yet in this invocation
RunnerReset ==
    /\ tests = <<>>
    /\ success = 0
    /\ state = NoRunner
    /\ built = NoBuild
    /\ fetched = <<>>
    /\ frames = <<>>
    /\ log = <<>>
    /\ on_pass_calls = 0
    /\ on_fail_calls = <<>>
    /\ on_finish_calls = 0
    /\ score = -1

Init ==
    /\ tree = EmptyTree
    /\ mtime = 0
    /\ pc = "idle"
    /\ invocations = 0
    /\ tester = TesterOf(<<>>)
    /\ reconciled = FALSE
    /\ tests_old = <<>>
    /\ RunnerReset
    /\ ValidatorReset
    /\ exit_code = -1
    /\ command = "none"
    /\ state_v2 = NoRunner
    /\ course_v2 = NoCourseV2
    /\ success_v2 = 0
    /\ log_v2 = <<>>
    /\ state_l = NoLister
    /\ tests_l = <<>>
    /\ listed = <<>>
    /\ finish_runs = 0

(***************************************************************************)
(* Monitor::new (monitor.rs:63-80).                                        *)
(***************************************************************************)
\* The definition is loaded from the backend and the working directory may
\* have been touched since the last invocation.  written = -1: fetch_metadata
\* failed; written < number of writes of db_update: the store failed at that
\* write; otherwise db_update completed.
MonitorNewOf(definitions, maxInvocations) ==
    /\ pc = "idle"
    /\ invocations < maxInvocations
    /\ \E def \in definitions, time \in mtime..MaxTime :
          LET check == db_should_update(tree, time)
              ops == db_update(check.tree, list_tests(def), Metadata)
          IN /\ mtime' = time
             /\ tester' = def
             /\ IF check.should_update
                THEN \E written \in -1..Len(ops) :
                        /\ tree' = IF written = -1 THEN check.tree
                                   ELSE ApplyOps(check.tree,
                                                 SubSeq(ops, 1, written))
                        /\ reconciled' = (written = Len(ops))
                        /\ pc' = IF written = Len(ops) THEN "monitor"
                                 ELSE "idle"
                        /\ exit_code' = IF written = Len(ops) THEN -1 ELSE 1
                ELSE /\ tree' = check.tree
                     /\ reconciled' = FALSE
                     /\ pc' = "monitor"
                     /\ exit_code' = -1
    /\ invocations' = invocations + 1
    /\ tests_old' = StoredTestNames(tree)
    /\ tests' = <<>>
    /\ success' = 0
    /\ state' = NoRunner
    /\ built' = NoBuild
    /\ fetched' = <<>>
    /\ frames' = <<>>
    /\ log' = <<>>
    /\ on_pass_calls' = 0
    /\ on_fail_calls' = <<>>
    /\ on_finish_calls' = 0
    /\ score' = -1
    /\ vstate' = NoValidator
    /\ course' = NoCourse
    /\ checked' = <<>>
    /\ command' = "none"
    /\ state_l' = NoLister
    /\ tests_l' = <<>>
    /\ listed' = <<>>
    /\ finish_runs' = 0
    /\ UNCHANGED v2Vars

(***************************************************************************)
(* Building a runner (monitor.rs:82-263).                                  *)
(***************************************************************************)
Frame(event_type, payload, ok) ==
    [event_type |-> event_type, payload |-> payload, ok |-> ok]

\* The common tail of into_runner and into_runner_staggered: the Monitor is
\* consumed (its tester definition is dropped with it), the metadata is
\* read, the websocket is opened and `init` sent (ws_stream_init,
\* monitor.rs:462-475), the tester repository is cloned, the runner is
\* built.  net: "connect" the connection fails, "init" the init frame fails,
\* "repo" tester_repo_init fails, "ok" otherwise.  seen is the store as the
\* fetch read it, entries what the fetch returned.
BuildRunner(seen, entries, by, staggered, cmd) ==
    \E net \in {"ok", "connect", "init", "repo"} :
       LET collected == Collect(entries)
           haveMeta == Get(seen, KEY_METADATA).tag = "CourseMetaData"
           opened == collected.ok /\ haveMeta /\ net # "connect"
           isBuilt == opened /\ net = "ok"
       IN /\ frames' = IF opened
                       THEN <<Frame("init", "id", net # "init")>>
                       ELSE <<>>
          /\ tree' = seen
          /\ fetched' = [i \in 1..Len(entries) |->
                            [ok |-> entries[i].ok, key |-> entries[i].key]]
          /\ pc' = IF isBuilt THEN "runner" ELSE "idle"
          /\ tests' = IF isBuilt THEN collected.tests ELSE <<>>
          /\ state' = IF isBuilt THEN Loaded ELSE NoRunner
          /\ built' = IF isBuilt THEN [by |-> by, staggered |-> staggered]
                      ELSE NoBuild
          /\ success' = 0
          /\ tester' = TesterOf(<<>>)
          /\ reconciled' = FALSE
          /\ tests_old' = <<>>
          /\ exit_code' = IF isBuilt THEN -1 ELSE 1
          /\ command' = cmd
          /\ UNCHANGED <<mtime, invocations, log, on_pass_calls,
                         on_fail_calls, on_finish_calls, score, checkVars, v2Vars, listerVars>>

\* the names a user passes to `test <name>`: "a", "s/l/c", "c/c", "t"
NameArgs ==
    {<<NameA>>, <<SectionName, LessonName, NameC>>, <<NameC, NameC>>, <<<<116>>>>}

\* the stores a fetch may read: the store as the program left it, or with
\* one of the records the fetch reads damaged since it was written
Damaged(t, entries) ==
    {t} \cup {Insert(t, entries[i].key, CorruptVal)
              : i \in {j \in 1..Len(entries) : entries[j].ok}}

\* Monitor::into_runner (monitor.rs:82-166) called with this name for this
\* command
IntoRunnerFor(test_name, cmd) ==
    LET fetch(t) ==
            IF test_name.tag = "Some"
            THEN tests_accumulate_matching(PathToKey(test_name.some), t)
            ELSE tests_accumulate_all(t)
    IN \E seen \in Damaged(tree, fetch(tree)) :
          BuildRunner(seen, fetch(seen), "into_runner",
                      Len(Collect(fetch(seen)).tests), cmd)

\* main for `test <name>` and `test --all` (main.rs:101-106)
IntoRunner ==
    /\ pc = "monitor"
    /\ \E test_name \in {None} \cup {Some(n) : n \in NameArgs} :
          IntoRunnerFor(test_name, IF test_name.tag = "Some"
                                   THEN "test <name>" ELSE "test --all")

\* main for `test` with no name and no option (main.rs:107-116)
MainTest ==
    /\ pc = "monitor"
    /\ IntoRunnerFor(None, "test")

\* Monitor::into_runner_staggered (monitor.rs:168-263)
IntoRunnerStaggered ==
    /\ pc = "monitor"
    /\ LET query == Get(tree, KEY_STAGGERED)
           staggered == IF query.tag = "u32" THEN query.num ELSE 1
           fetch(t) == tests_accumulate_some(t, staggered)
       IN \E seen \in Damaged(tree, fetch(tree)) :
             BuildRunner(seen, fetch(seen), "into_runner_staggered",
                         staggered, "none")

(***************************************************************************)
(* RunnerV1::run (runner/v1.rs:117-479), one action per state.             *)
(***************************************************************************)
\* update_and_fetch answering the new record without storing it
update_and_fetch_unwritten(t, key, passed) ==
    LET old == Get(t, key)
    IN IF old.tag = "None" THEN [tree |-> t, some |-> FALSE]
       ELSE IF old.tag # "TestState"
       THEN [tree |-> Remove(t, key), some |-> FALSE]
       ELSE [tree |-> t, some |-> TRUE]

\* update_and_fetch with a closure that rebuilds the record as mandatory
update_and_fetch_resetting(t, key, passed) ==
    LET old == Get(t, key)
    IN IF old.tag = "None" THEN [tree |-> t, some |-> FALSE]
       ELSE IF old.tag # "TestState"
       THEN [tree |-> Remove(t, key), some |-> FALSE]
       ELSE [tree |-> Insert(t, key,
                             TestVal([old.test EXCEPT !.passed = passed,
                                                      !.optional = FALSE])),
             some |-> TRUE]

\* test_pass / test_fail under sled's update_and_fetch (runner/v1.rs:486-502):
\* no value, or a value that does not decode, yields None, and a closure
\* that returns None deletes the key
update_and_fetch(t, key, passed) ==
    LET old == Get(t, key)
    IN IF old.tag = "None" THEN [tree |-> t, some |-> FALSE]
       ELSE IF old.tag # "TestState"
       THEN [tree |-> Remove(t, key), some |-> FALSE]
       ELSE [tree |-> Insert(t, key,
                             TestVal([old.test EXCEPT !.passed = passed])),
             some |-> TRUE]

\* on_pass of the staggered build storing no more than the length of the index
on_pass_capped(t) ==
    LET len == Len(StoredTestNames(t))
    IN Insert(t, KEY_STAGGERED,
              U32Val(IF built.by = "into_runner" THEN built.staggered
                     ELSE IF built.staggered + 1 < len
                     THEN built.staggered + 1 ELSE len))

\* the closures given to the builder (monitor.rs:143-150, 242-250); the
\* result of the insert is discarded
on_pass(t) ==
    Insert(t, KEY_STAGGERED,
           U32Val(IF built.by = "into_runner" THEN built.staggered
                  ELSE built.staggered + 1))

\* on_fail storing the index of the failure itself
on_fail_index(t, index_test) == Insert(t, KEY_STAGGERED, U32Val(index_test))

on_fail(t, index_test) == Insert(t, KEY_STAGGERED, U32Val(index_test + 1))

\* the score computed with an integer division before the multiplication
ScoreTruncated(succ, total) == (succ \div total) * 10000

\* format!("{:.2}", success as f64 / tests.len() as f64 * 100f64), as the
\* number of hundredths printed (runner/v1.rs:424-427)
Score(succ, total) == (2 * 10000 * succ + total) \div (2 * total)

\* Advance without the halt on a mandatory failure
AdvancePastMandatory(index_test, len, result, optional, updated, sent) ==
    IF ~updated THEN Fail(index_test, "failed to update test")
    ELSE IF ~sent THEN Fail(index_test, "failed to send report")
    ELSE IF index_test + 1 < len THEN NewTest(index_test + 1)
    ELSE Pass

\* Advance with the end of the list tested one test too early
AdvanceOffByOne(index_test, len, result, optional, updated, sent) ==
    IF ~updated THEN Fail(index_test, "failed to update test")
    ELSE IF ~sent THEN Fail(index_test, "failed to send report")
    ELSE IF result = "Fail" /\ ~optional THEN Fail(index_test, "test failed")
    ELSE IF index_test + 2 < len THEN NewTest(index_test + 1)
    ELSE Pass

\* Advance without the check of the result of update_and_fetch
AdvanceUnchecked(index_test, len, result, optional, updated, sent) ==
    IF ~sent THEN Fail(index_test, "failed to send report")
    ELSE IF result = "Fail" /\ ~optional THEN Fail(index_test, "test failed")
    ELSE IF index_test + 1 < len THEN NewTest(index_test + 1)
    ELSE Pass

\* the state RunNewTest returns (runner/v1.rs:188-209, 224-245, 320-376)
Advance(index_test, len, result, optional, updated, sent) ==
    IF ~updated THEN Fail(index_test, "failed to update test")
    ELSE IF ~sent THEN Fail(index_test, "failed to send report")
    ELSE IF result = "Fail" /\ ~optional THEN Fail(index_test, "test failed")
    ELSE IF index_test + 1 < len THEN NewTest(index_test + 1)
    ELSE Pass

\* Loaded with an empty list finishing at once
RunLoadedEmptyFinishes ==
    /\ pc = "runner"
    /\ state.tag = "Loaded"
    /\ state' = IF tests = <<>> THEN Finish ELSE NewTest(0)
    /\ UNCHANGED <<tree, mtime, pc, invocations, tester, reconciled, tests_old,
                   tests, success, built, fetched, frames, log,
                   on_pass_calls, on_fail_calls, on_finish_calls, score,
                   checkVars, v2Vars, listerVars, exit_code,
                   command>>

RunLoaded ==
    /\ pc = "runner"
    /\ state.tag = "Loaded"
    /\ state' = IF tests = <<>> THEN Fail(0, "no tests found")
                ELSE NewTest(0)
    /\ UNCHANGED <<tree, mtime, pc, invocations, tester, reconciled, tests_old, tests,
                   success, built, fetched, frames, log, on_pass_calls,
                   on_fail_calls, on_finish_calls, score, checkVars, v2Vars, listerVars,
                   exit_code,
                   command>>

\* NewTest handing the `log` frame to the websocket before the update of
\* the store is known to have succeeded
RunNewTestSendingFirst ==
    /\ pc = "runner"
    /\ state.tag = "NewTest"
    /\ \E result \in {"Pass", "Fail"}, store \in {"ok", "vanished", "error"},
          sent \in BOOLEAN :
          LET index_test == state.index_test
              current == tests[index_test + 1]
              seen == IF store = "vanished" THEN Remove(tree, current.key)
                      ELSE tree
              query == update_and_fetch(seen, current.key, result)
              updated == store # "error" /\ query.some
              entry == [index_test |-> index_test,
                        key |-> current.key,
                        result |-> result,
                        updated |-> updated,
                        sent |-> updated /\ sent]
              frame == Frame("log",
                             [slug |-> current.test.slug,
                              state |-> IF result = "Pass" THEN "Passed"
                                        ELSE "Failed",
                              optional |-> result = "Fail"
                                           /\ current.test.optional],
                             sent)
              success_inc == IF result = "Pass" THEN 1 ELSE 0
          IN /\ log' = Append(log, entry)
             /\ tree' = IF store = "error" THEN tree ELSE query.tree
             /\ frames' = Append(frames, frame)
             /\ state' = Advance(index_test, Len(tests), result,
                                 current.test.optional, updated, sent)
             /\ success' = IF state'.tag = "Fail" THEN success
                           ELSE success + success_inc
    /\ UNCHANGED <<mtime, pc, invocations, tester, reconciled, tests_old, tests, built,
                   fetched, on_pass_calls, on_fail_calls, on_finish_calls,
                   score, checkVars, v2Vars, listerVars, exit_code,
                   command>>

\* result: what the test command returned.  store: "ok", or "vanished" when
\* the record was removed from the store after the fetch, or "error" when
\* update_and_fetch returns Err.  sent: whether the websocket accepts the
\* `log` frame.
RunNewTest ==
    /\ pc = "runner"
    /\ state.tag = "NewTest"
    /\ \E result \in {"Pass", "Fail"}, store \in {"ok", "vanished", "error"},
          sent \in BOOLEAN :
          LET index_test == state.index_test
              current == tests[index_test + 1]
              seen == IF store = "vanished" THEN Remove(tree, current.key)
                      ELSE tree
              query == update_and_fetch(seen, current.key, result)
              updated == store # "error" /\ query.some
              entry == [index_test |-> index_test,
                        key |-> current.key,
                        result |-> result,
                        updated |-> updated,
                        sent |-> updated /\ sent]
              frame == Frame("log",
                             [slug |-> current.test.slug,
                              state |-> IF result = "Pass" THEN "Passed"
                                        ELSE "Failed",
                              optional |-> result = "Fail"
                                           /\ current.test.optional],
                             sent)
              success_inc == IF result = "Pass" THEN 1 ELSE 0
          IN /\ log' = Append(log, entry)
             /\ tree' = IF store = "error" THEN tree ELSE query.tree
             /\ frames' = IF updated THEN Append(frames, frame) ELSE frames
             /\ state' = Advance(index_test, Len(tests), result,
                                 current.test.optional, updated, sent)
             /\ success' = IF state'.tag = "Fail" THEN success
                           ELSE success + success_inc
    /\ UNCHANGED <<mtime, pc, invocations, tester, reconciled, tests_old, tests, built,
                   fetched, on_pass_calls, on_fail_calls, on_finish_calls,
                   score, checkVars, v2Vars, listerVars, exit_code,
                   command>>

\* json_report_close skipped when json_report_are_tests_passing failed
ReportEndStopping(status) ==
    \E sentStatus \in BOOLEAN, sentClose \in BOOLEAN :
       frames' = frames
                 \o IF sentStatus
                    THEN <<Frame("status", status, TRUE),
                           Frame("disconnect", "", sentClose)>>
                    ELSE <<Frame("status", status, FALSE)>>

\* json_report_are_tests_passing then json_report_close: a failure of the
\* first does not prevent the second (runner/v1.rs:389-402, 437-450)
ReportEnd(status) ==
    \E sentStatus \in BOOLEAN, sentClose \in BOOLEAN :
       frames' = frames \o <<Frame("status", status, sentStatus),
                             Frame("disconnect", "", sentClose)>>

\* Fail calling on_fail with the index of the first test
RunFailAtZero ==
    /\ pc = "runner"
    /\ state.tag = "Fail"
    /\ on_fail_calls' = Append(on_fail_calls, 0)
    /\ tree' = on_fail(tree, 0)
    /\ on_finish_calls' = on_finish_calls + 1
    /\ ReportEnd(FALSE)
    /\ state' = Finish
    /\ UNCHANGED <<mtime, pc, invocations, tester, reconciled, tests_old,
                   tests, success, built, fetched, log, on_pass_calls,
                   score, checkVars, v2Vars, listerVars, exit_code, command>>

\* Fail without the call of on_finish
RunFailNoFinish ==
    /\ pc = "runner"
    /\ state.tag = "Fail"
    /\ on_fail_calls' = Append(on_fail_calls, state.index_test)
    /\ tree' = on_fail(tree, state.index_test)
    /\ ReportEnd(FALSE)
    /\ state' = Finish
    /\ UNCHANGED <<mtime, pc, invocations, tester, reconciled, tests_old,
                   tests, success, built, fetched, log, on_pass_calls,
                   on_finish_calls, score, checkVars, v2Vars, listerVars, exit_code,
                   command>>

RunFail ==
    /\ pc = "runner"
    /\ state.tag = "Fail"
    /\ on_fail_calls' = Append(on_fail_calls, state.index_test)
    /\ tree' = on_fail(tree, state.index_test)
    /\ on_finish_calls' = on_finish_calls + 1
    /\ ReportEnd(FALSE)
    /\ state' = Finish
    /\ UNCHANGED <<mtime, pc, invocations, tester, reconciled, tests_old, tests, success,
                   built, fetched, log, on_pass_calls, score, checkVars, v2Vars, listerVars,
                   exit_code,
                   command>>

RunPass ==
    /\ pc = "runner"
    /\ state.tag = "Pass"
    /\ score' = Score(success, Len(tests))
    /\ on_pass_calls' = on_pass_calls + 1
    /\ tree' = on_pass(tree)
    /\ on_finish_calls' = on_finish_calls + 1
    /\ ReportEnd(TRUE)
    /\ state' = Finish
    /\ UNCHANGED <<mtime, pc, invocations, tester, reconciled, tests_old, tests, success,
                   built, fetched, log, on_fail_calls, checkVars, v2Vars, listerVars,
                   exit_code,
                   command>>

\* Finish calling on_finish once more
RunFinishCallingHook ==
    /\ pc = "runner"
    /\ state.tag = "Finish"
    /\ finish_runs < MaxFinishRuns
    /\ finish_runs' = finish_runs + 1
    /\ on_finish_calls' = on_finish_calls + 1
    /\ state' = Finish
    /\ UNCHANGED <<tree, mtime, pc, invocations, tester, reconciled, tests_old,
                   tests, success, built, fetched, frames, log,
                   on_pass_calls, on_fail_calls, score, checkVars, v2Vars,
                   state_l, tests_l, listed, exit_code, command>>

\* run() called on a runner in Finish (runner/v1.rs:465-477): the runner is
\* rebuilt from its own fields
RunFinish ==
    /\ pc = "runner"
    /\ state.tag = "Finish"
    /\ finish_runs < MaxFinishRuns
    /\ finish_runs' = finish_runs + 1
    /\ state' = Finish
    /\ UNCHANGED <<tree, mtime, pc, invocations, tester, reconciled, tests_old,
                   tests, success, built, fetched, frames, log,
                   on_pass_calls, on_fail_calls, on_finish_calls, score,
                   checkVars, v2Vars, state_l, tests_l, listed, exit_code,
                   command>>

\* main's loop ends when is_finished() holds and main returns Ok(())
\* (main.rs:104-106, 113-115, 129)
MainExit ==
    /\ pc = "runner"
    /\ state.tag = "Finish"
    /\ pc' = "idle"
    /\ exit_code' = 0
    /\ UNCHANGED <<tree, mtime, invocations, tester, reconciled, tests_old,
                   runnerVars, checkVars, v2Vars, listerVars, command>>

\* main for `test --list` (main.rs:95-100, 129): into_lister reads the
\* index (monitor.rs:300-323), unwrapping it, and consumes the Monitor, the
\* lister prints the tests; nothing is written to the store
MainList ==
    /\ pc = "monitor"
    /\ pc' = "idle"
    /\ tester' = TesterOf(<<>>)
    /\ reconciled' = FALSE
    /\ tests_old' = <<>>
    /\ exit_code' = IF Get(tree, KEY_TESTS).tag = "None" THEN 101 ELSE 0
    /\ command' = "test --list"
    /\ UNCHANGED <<tree, mtime, invocations, runnerVars, checkVars, v2Vars, listerVars>>

(***************************************************************************)
(* `check`: Monitor::into_validator (monitor.rs:265-298) and                *)
(* ValidatorV1::run (validator/v1.rs:57-382), one action per state.        *)
(***************************************************************************)
\* ValidatorStateV1 (validator/v1.rs:9-36)
VLoaded == [tag |-> "Loaded"]
VCourse == [tag |-> "Course"]
VSection(i) == [tag |-> "Section", index_section |-> i]
VLesson(i, j) == [tag |-> "Lesson", index_section |-> i, index_lesson |-> j]
VSuite(i, j, k) ==
    [tag |-> "Suite", index_section |-> i, index_lesson |-> j,
     index_suite |-> k]
VTest(i, j, k, l) ==
    [tag |-> "Test", index_section |-> i, index_lesson |-> j,
     index_suite |-> k, index_test |-> l]
\* reason: "Invalid slug: '<slug>', expected '<slug_expected>'"
VFail(slug, slug_expected) ==
    [tag |-> "Fail", slug |-> slug, slug_expected |-> slug_expected]
VPass == [tag |-> "Pass"]
VFinish == [tag |-> "Finish"]
\* the thread panicked on an index out of range
VPanicked == [tag |-> "Panicked"]

\* a line printed for a node: its index path, its slug and its mark
Line(path, slug, ok) == [path |-> path, slug |-> slug, ok |-> ok]

\* the course file and the tester definition move into the validator
IntoValidator ==
    /\ pc = "monitor"
    /\ pc' = "validator"
    /\ \E c \in CheckCourses : course' = c
    /\ vstate' = VLoaded
    /\ checked' = <<>>
    /\ command' = "check"
    /\ UNCHANGED <<tree, mtime, invocations, tester, reconciled, tests_old,
                   runnerVars, exit_code, v2Vars, listerVars>>

validatorFrame ==
    UNCHANGED <<tree, mtime, pc, invocations, tester, reconciled, tests_old,
                runnerVars, course, exit_code, command, v2Vars, listerVars>>

ValidateLoaded ==
    /\ pc = "validator"
    /\ vstate.tag = "Loaded"
    /\ vstate' = VCourse
    /\ checked' = checked
    /\ validatorFrame

\* validator/v1.rs:72-87: the course is printed as valid
ValidateCourse ==
    /\ pc = "validator"
    /\ vstate.tag = "Course"
    /\ checked' = Append(checked, Line(<<>>, course.slug, TRUE))
    /\ vstate' = VSection(0)
    /\ validatorFrame

\* validator/v1.rs:88-108: the section is printed as valid
ValidateSection ==
    /\ pc = "validator"
    /\ vstate.tag = "Section"
    /\ LET index_section == vstate.index_section
           section == tester.sections[index_section + 1]
       IN /\ checked' = Append(checked,
                               Line(<<index_section>>, section.slug, TRUE))
          /\ vstate' = VLesson(index_section, 0)
    /\ validatorFrame

\* validator/v1.rs:109-186
ValidateLesson ==
    /\ pc = "validator"
    /\ vstate.tag = "Lesson"
    /\ LET index_section == vstate.index_section
           index_lesson == vstate.index_lesson
           section == tester.sections[index_section + 1]
           lesson == section.lessons[index_lesson + 1]
           slug_expected ==
               SlugExpected(<<course.name, section.name, lesson.name>>)
           here == <<index_section, index_lesson>>
       IN IF slug_expected # lesson.slug
          THEN /\ checked' = Append(checked, Line(here, lesson.slug, FALSE))
               /\ vstate' = VFail(lesson.slug, slug_expected)
          ELSE /\ checked' = Append(checked, Line(here, lesson.slug, TRUE))
               /\ vstate' =
                     IF lesson.suites.tag = "Some"
                     THEN VSuite(index_section, index_lesson, 0)
                     ELSE IF index_lesson + 1 < Len(section.lessons)
                     THEN VLesson(index_section, index_lesson + 1)
                     ELSE IF index_section + 1 < Len(tester.sections)
                     THEN VSection(index_section + 1)
                     ELSE VPass
    /\ validatorFrame

\* validator/v1.rs:187-246; indexing an empty list of suites panics, which
\* ends the process with status 101
ValidateSuite ==
    /\ pc = "validator"
    /\ vstate.tag = "Suite"
    /\ LET index_section == vstate.index_section
           index_lesson == vstate.index_lesson
           index_suite == vstate.index_suite
           section == tester.sections[index_section + 1]
           lesson == section.lessons[index_lesson + 1]
           suites == lesson.suites.some
           here == <<index_section, index_lesson, index_suite>>
       IN IF index_suite >= Len(suites)
          THEN /\ vstate' = VPanicked
               /\ checked' = checked
               /\ pc' = "idle"
               /\ exit_code' = 101
               /\ command' = command
          ELSE LET suite == suites[index_suite + 1]
                   slug_expected ==
                       SlugExpected(<<course.name, section.name, lesson.name,
                                      suite.name>>)
               IN /\ IF slug_expected # suite.slug
                     THEN /\ checked' = Append(checked,
                                               Line(here, suite.slug, FALSE))
                          /\ vstate' = VFail(suite.slug, slug_expected)
                     ELSE /\ checked' = Append(checked,
                                               Line(here, suite.slug, TRUE))
                          /\ vstate' = VTest(index_section, index_lesson,
                                             index_suite, 0)
                  /\ UNCHANGED <<pc, exit_code, command>>
    /\ UNCHANGED <<tree, mtime, invocations, tester, reconciled, tests_old,
                   runnerVars, course, v2Vars, listerVars>>

\* validator/v1.rs:247-350
ValidateTest ==
    /\ pc = "validator"
    /\ vstate.tag = "Test"
    /\ LET index_section == vstate.index_section
           index_lesson == vstate.index_lesson
           index_suite == vstate.index_suite
           index_test == vstate.index_test
           section == tester.sections[index_section + 1]
           lesson == section.lessons[index_lesson + 1]
           suites == lesson.suites.some
           suite == suites[index_suite + 1]
           test == suite.tests[index_test + 1]
           slug_expected ==
               SlugExpected(<<course.name, section.name, lesson.name,
                              suite.name, test.name>>)
           here == <<index_section, index_lesson, index_suite, index_test>>
       IN IF slug_expected # test.slug
          THEN /\ checked' = Append(checked, Line(here, test.slug, FALSE))
               /\ vstate' = VFail(test.slug, slug_expected)
          ELSE /\ checked' = Append(checked, Line(here, test.slug, TRUE))
               /\ vstate' =
                     IF index_test + 1 < Len(suite.tests)
                     THEN VTest(index_section, index_lesson, index_suite,
                                index_test + 1)
                     ELSE IF index_suite + 1 < Len(suites)
                     THEN VSuite(index_section, index_lesson, index_suite + 1)
                     ELSE IF index_lesson + 1 < Len(section.lessons)
                     THEN VLesson(index_section, index_lesson + 1)
                     ELSE IF index_section + 1 < Len(tester.sections)
                     THEN VSection(index_section + 1)
                     ELSE VPass
    /\ validatorFrame

\* validator/v1.rs:351-361
ValidateFail ==
    /\ pc = "validator"
    /\ vstate.tag = "Fail"
    /\ vstate' = VFinish
    /\ checked' = checked
    /\ validatorFrame

\* validator/v1.rs:362-374
ValidatePass ==
    /\ pc = "validator"
    /\ vstate.tag = "Pass"
    /\ vstate' = VFinish
    /\ checked' = checked
    /\ validatorFrame

\* run() called on a validator in Finish (validator/v1.rs:375-380)
ValidateFinish ==
    /\ pc = "validator"
    /\ vstate.tag = "Finish"
    /\ finish_runs < MaxFinishRuns
    /\ finish_runs' = finish_runs + 1
    /\ vstate' = VFinish
    /\ UNCHANGED <<tree, mtime, pc, invocations, tester, reconciled, tests_old,
                   runnerVars, course, checked, v2Vars, state_l, tests_l,
                   listed, exit_code, command>>

\* main's loop over the validator ends when is_finished() holds and main
\* returns Ok(()) (main.rs:122-129)
MainExitCheck ==
    /\ pc = "validator"
    /\ vstate.tag = "Finish"
    /\ pc' = "idle"
    /\ exit_code' = 0
    /\ UNCHANGED <<tree, mtime, invocations, tester, reconciled, tests_old,
                   runnerVars, checkVars, v2Vars, listerVars, command>>

(***************************************************************************)
(* `test --list`: Monitor::into_lister (monitor.rs:300-323) and            *)
(* ListerV1::run (cli/src/lister/v1.rs:36-160), one action per state.      *)
(***************************************************************************)
\* ListerStateV1 (cli/src/lister/v1.rs:11-17)
LLoaded == [tag |-> "Loaded"]
LList(i) == [tag |-> "List", index_test |-> i]
\* reason: "no tests found", or the key that could not be read
LError(reason) == [tag |-> "Error", reason |-> reason]
LFinished == [tag |-> "Finished"]
\* the thread panicked on an unwrap
LPanicked == [tag |-> "Panicked"]

listerFrame ==
    UNCHANGED <<tree, mtime, invocations, tester, reconciled, tests_old,
                runnerVars, checkVars, v2Vars, command>>

\* Monitor::into_lister (monitor.rs:300-323) as main calls it (main.rs:95-96):
\* the index is read and unwrapped, the Monitor is consumed
IntoLister ==
    /\ pc = "monitor"
    /\ LET query == Get(tree, KEY_TESTS)
       IN IF query.tag = "None"
          THEN /\ pc' = "idle"
               /\ exit_code' = 101
               /\ state_l' = LPanicked
               /\ tests_l' = <<>>
          ELSE /\ pc' = "lister"
               /\ exit_code' = -1
               /\ state_l' = LLoaded
               /\ tests_l' = query.keys
    /\ listed' = <<>>
    /\ finish_runs' = 0
    /\ tester' = TesterOf(<<>>)
    /\ reconciled' = FALSE
    /\ tests_old' = <<>>
    /\ command' = "test --list"
    /\ UNCHANGED <<tree, mtime, invocations, runnerVars, checkVars, v2Vars>>

\* cli/src/lister/v1.rs:41-65
ListLoaded ==
    /\ pc = "lister"
    /\ state_l.tag = "Loaded"
    /\ state_l' = IF Len(tests_l) = 0 THEN LError("no tests found")
                  ELSE LList(0)
    /\ UNCHANGED <<pc, exit_code, tests_l, listed, finish_runs>>
    /\ listerFrame

\* cli/src/lister/v1.rs:66-136.  read: whether db.get returns Ok.  A value
\* that does not decode is unwrapped, which ends the process with status 101
ListList ==
    /\ pc = "lister"
    /\ state_l.tag = "List"
    /\ \E read \in {"ok", "error"} :
          LET index_test == state_l.index_test
              key == tests_l[index_test + 1]
              query == Get(tree, key)
          IN IF read = "error" \/ query.tag = "None"
             THEN /\ state_l' = LError(key)
                  /\ UNCHANGED <<pc, exit_code, listed>>
             ELSE IF query.tag # "TestState"
             THEN /\ state_l' = LPanicked
                  /\ pc' = "idle"
                  /\ exit_code' = 101
                  /\ UNCHANGED listed
             ELSE /\ listed' = Append(listed, [key |-> key,
                                               passed |-> query.test.passed])
                  /\ state_l' = IF index_test + 1 < Len(tests_l)
                                THEN LList(index_test + 1)
                                ELSE LFinished
                  /\ UNCHANGED <<pc, exit_code>>
    /\ UNCHANGED <<tests_l, finish_runs>>
    /\ listerFrame

\* cli/src/lister/v1.rs:137-147
ListError ==
    /\ pc = "lister"
    /\ state_l.tag = "Error"
    /\ state_l' = LFinished
    /\ UNCHANGED <<pc, exit_code, tests_l, listed, finish_runs>>
    /\ listerFrame

\* run() called on a lister in Finished (cli/src/lister/v1.rs:148-153)
ListFinished ==
    /\ pc = "lister"
    /\ state_l.tag = "Finished"
    /\ finish_runs < MaxFinishRuns
    /\ finish_runs' = finish_runs + 1
    /\ state_l' = LFinished
    /\ UNCHANGED <<pc, exit_code, tests_l, listed>>
    /\ listerFrame

\* main's loop over the lister ends when is_finished() holds and main
\* returns Ok(()) (main.rs:98-100, 129)
MainExitList ==
    /\ pc = "lister"
    /\ state_l.tag = "Finished"
    /\ pc' = "idle"
    /\ exit_code' = 0
    /\ UNCHANGED <<tests_l, state_l, listed, finish_runs>>
    /\ listerFrame

(***************************************************************************)
(* The course-tree runner: RunnerV2::run (cli/src/runner/v2.rs:120-482),   *)
(* one action per state, over a course file parsed by parsing/v2.rs.       *)
(***************************************************************************)
\* JsonTestV2 and JsonTestSuiteV2 (cli/src/parsing/v2.rs:7-24), reduced to
\* the fields the runner branches on
TestV2(optional) == [optional |-> optional]
SuiteV2(optional, ts) == [optional |-> optional, tests |-> ts]

\* the lessons of a course file (cli/src/parsing/v2.rs:43-52): no suites, an
\* empty list of suites, one suite of two tests, two suites of one test.
\* tests, lessons and stages are never empty (no_empty_vec), suites may be
LessonsV2 ==
    {[suites |-> None],
     [suites |-> Some(<<>>)],
     [suites |-> Some(<<SuiteV2(FALSE, <<TestV2(TRUE), TestV2(FALSE)>>)>>)],
     [suites |-> Some(<<SuiteV2(TRUE, <<TestV2(FALSE)>>),
                        SuiteV2(FALSE, <<TestV2(FALSE)>>)>>)]}

StagesV2 ==
    {[lessons |-> ls] : ls \in UNION {[1..n -> LessonsV2]
                                      : n \in 1..MaxLessons}}

\* JsonCourseV2 (cli/src/parsing/v2.rs:92-110)
CoursesV2 ==
    {[stages |-> ss] : ss \in UNION {[1..n -> StagesV2] : n \in 1..MaxStages}}

\* RunnerStateV2 (cli/src/runner/v2.rs:99-118)
Update == [tag |-> "Update"]
NewSuiteV2(s, l, u) ==
    [tag |-> "NewSuite", index_stage |-> s, index_lesson |-> l,
     index_suite |-> u]
NewTestV2(s, l, u, t) ==
    [tag |-> "NewTest", index_stage |-> s, index_lesson |-> l,
     index_suite |-> u, index_test |-> t]
FailV2 == [tag |-> "Fail"]
\* the thread panicked: an index out of range or an `expect` on None
Panicked == [tag |-> "Panicked"]

\* the inner fold_while of follow_path (v2.rs:493-502): the lessons of one
\* stage after the first `skip`, numbered from 0 by enumerate
RECURSIVE FollowLessons(_, _, _, _)
FollowLessons(lessons, skip, i_lesson, acc) ==
    IF skip + i_lesson >= Len(lessons) THEN [done |-> FALSE, acc |-> acc]
    ELSE LET acc1 == <<acc[1], i_lesson>>
         IN IF lessons[skip + i_lesson + 1].suites.tag = "Some"
            THEN [done |-> TRUE, acc |-> acc1]
            ELSE FollowLessons(lessons, skip, i_lesson + 1, acc1)

\* the outer fold_while of follow_path (v2.rs:485-503): the stages after the
\* first path[0], numbered from 0 by enumerate; the same number of lessons
\* is skipped in every stage
RECURSIVE FollowStages(_, _, _, _)
FollowStages(stages, path, i_stage, acc) ==
    IF path[1] + i_stage >= Len(stages) THEN acc
    ELSE LET inner == FollowLessons(stages[path[1] + i_stage + 1].lessons,
                                    path[2], 0, <<i_stage, acc[2]>>)
         IN IF inner.done THEN inner.acc
            ELSE FollowStages(stages, path, i_stage + 1, inner.acc)

\* follow_path (v2.rs:484-509): the indices the folds end on are used to
\* index the course from its start
follow_path(c, path) ==
    LET acc == FollowStages(c.stages, path, 0, <<0, 0>>)
        index_stage == acc[1]
        index_lesson == acc[2]
    IN IF index_stage >= Len(c.stages) THEN Panicked
       ELSE IF index_lesson >= Len(c.stages[index_stage + 1].lessons)
       THEN Panicked
       ELSE IF c.stages[index_stage + 1].lessons[index_lesson + 1].suites.tag
               = "Some"
       THEN Some(acc)
       ELSE None

\* the state after follow_path (v2.rs:254-271, 403-420)
AfterFollow(found) ==
    IF found.tag = "Panicked" THEN Panicked
    ELSE IF found.tag = "Some" THEN NewSuiteV2(found.some[1], found.some[2], 0)
    ELSE Pass

v2Frame ==
    UNCHANGED <<tree, mtime, invocations, tester, reconciled, tests_old,
                runnerVars, checkVars, command, listerVars>>

\* a step of RunnerV2::run to the state next; a panic ends the process
\* with status 101
StepV2(next) ==
    /\ state_v2' = next
    /\ IF next.tag = "Panicked"
       THEN pc' = "idle" /\ exit_code' = 101
       ELSE UNCHANGED <<pc, exit_code>>
    /\ v2Frame

\* Runner::new (cli/src/runner/mod.rs:32-76): the course file is parsed and
\* the runner built in Loaded
RunnerV2New ==
    /\ pc = "idle"
    /\ state_v2 = NoRunner
    /\ \E c \in CoursesV2 : course_v2' = c
    /\ state_v2' = Loaded
    /\ success_v2' = 0
    /\ log_v2' = <<>>
    /\ pc' = "runner_v2"
    /\ UNCHANGED exit_code
    /\ v2Frame

\* v2.rs:128-156
RunV2Loaded ==
    /\ pc = "runner_v2"
    /\ state_v2.tag = "Loaded"
    /\ StepV2(Update)
    /\ UNCHANGED <<course_v2, success_v2, log_v2>>

\* v2.rs:160-272
RunV2Update ==
    /\ pc = "runner_v2"
    /\ state_v2.tag = "Update"
    /\ StepV2(AfterFollow(follow_path(course_v2, <<0, 0>>)))
    /\ UNCHANGED <<course_v2, success_v2, log_v2>>

\* the suites of the lesson at these indices, as NewSuite and NewTest read
\* them (v2.rs:280-285, 320-326): Panicked when an index is out of range or
\* the lesson has no suites
SuitesAt(c, index_stage, index_lesson) ==
    IF index_stage >= Len(c.stages) THEN Panicked
    ELSE IF index_lesson >= Len(c.stages[index_stage + 1].lessons)
    THEN Panicked
    ELSE LET lesson == c.stages[index_stage + 1].lessons[index_lesson + 1]
         IN IF lesson.suites.tag = "None" THEN Panicked ELSE lesson.suites

\* v2.rs:275-310
RunV2NewSuite ==
    /\ pc = "runner_v2"
    /\ state_v2.tag = "NewSuite"
    /\ LET suites == SuitesAt(course_v2, state_v2.index_stage,
                              state_v2.index_lesson)
       IN StepV2(IF suites.tag = "Panicked" THEN Panicked
                 ELSE IF state_v2.index_suite >= Len(suites.some)
                 THEN Panicked
                 ELSE NewTestV2(state_v2.index_stage, state_v2.index_lesson,
                                state_v2.index_suite, 0))
    /\ UNCHANGED <<course_v2, success_v2, log_v2>>

\* the state NewTest returns once the test has run (v2.rs:339-429)
AdvanceV2(c, st, suites, result) ==
    LET index_stage == st.index_stage
        index_lesson == st.index_lesson
        index_suite == st.index_suite
        index_test == st.index_test
        suite == suites[index_suite + 1]
        test == suite.tests[index_test + 1]
    IN IF result = "Fail" /\ ~test.optional /\ ~suite.optional THEN FailV2
       ELSE IF index_test + 1 < Len(suite.tests)
       THEN NewTestV2(index_stage, index_lesson, index_suite, index_test + 1)
       ELSE IF index_suite + 1 < Len(suites)
       THEN NewSuiteV2(index_stage, index_lesson, index_suite + 1)
       ELSE IF index_stage + 1 < Len(c.stages)
       THEN AfterFollow(follow_path(c, <<index_stage, index_lesson + 1>>))
       ELSE Pass

\* v2.rs:314-430.  result: what the test command returned
RunV2NewTest ==
    /\ pc = "runner_v2"
    /\ state_v2.tag = "NewTest"
    /\ Len(log_v2) < MaxExecutions
    /\ LET suites == SuitesAt(course_v2, state_v2.index_stage,
                              state_v2.index_lesson)
           inRange ==
               /\ suites.tag # "Panicked"
               /\ state_v2.index_suite < Len(suites.some)
               /\ state_v2.index_test
                    < Len(suites.some[state_v2.index_suite + 1].tests)
       IN IF ~inRange
          THEN /\ StepV2(Panicked)
               /\ UNCHANGED <<course_v2, success_v2, log_v2>>
          ELSE \E result \in {"Pass", "Fail"} :
                  /\ log_v2' = Append(log_v2,
                                      <<state_v2.index_stage,
                                        state_v2.index_lesson,
                                        state_v2.index_suite,
                                        state_v2.index_test>>)
                  /\ success_v2' = IF result = "Pass" THEN success_v2 + 1
                                   ELSE success_v2
                  /\ StepV2(AdvanceV2(course_v2, state_v2, suites.some,
                                      result))
                  /\ UNCHANGED course_v2

\* v2.rs:434-439
RunV2Fail ==
    /\ pc = "runner_v2"
    /\ state_v2.tag = "Fail"
    /\ StepV2(Finish)
    /\ UNCHANGED <<course_v2, success_v2, log_v2>>

\* v2.rs:445-471
RunV2Pass ==
    /\ pc = "runner_v2"
    /\ state_v2.tag = "Pass"
    /\ StepV2(Finish)
    /\ UNCHANGED <<course_v2, success_v2, log_v2>>

NextV2 ==
    \/ RunnerV2New
    \/ RunV2Loaded
    \/ RunV2Update
    \/ RunV2NewSuite
    \/ RunV2NewTest
    \/ RunV2Fail
    \/ RunV2Pass

SpecV2 == Init /\ [][NextV2]_vars

(***************************************************************************)
(* The registry of the revision that keys a test by its name alone         *)
(* (cli/src/db.rs), over the test list of cli/src/parsing/v2.rs.           *)
(***************************************************************************)
\* a test of the course file, given by the name of its suite and its own
NamedTests == {<<<<117>>, NameA>>, <<<<117>>, NameB>>, <<<<118>>, NameA>>}

\* the course files: one stage, one lesson, one suite of one test for each
\* test of an ordered choice of distinct tests
NamedCourses ==
    {[name |-> CourseName,
      stages |-> << [name |-> SectionName,
                     lessons |-> << [name |-> LessonName,
                                     suites |-> Some(
                         [i \in 1..Len(q) |->
                             [name |-> q[i][1],
                              tests |-> << [name |-> q[i][2]] >>]])] >>] >>]
     : q \in InjectiveSeqs(NamedTests)}

\* JsonCourseV2::list_tests (cli/src/parsing/v2.rs:164-187)
list_tests_v2(c) ==
    Concat([s \in 1..Len(c.stages) |->
      Concat([l \in 1..Len(c.stages[s].lessons) |->
        LET stage == c.stages[s]
            lesson == stage.lessons[l]
        IN IF lesson.suites.tag = "None" THEN <<>>
           ELSE Concat([u \in 1..Len(lesson.suites.some) |->
                  LET suite == lesson.suites.some[u]
                  IN [t \in 1..Len(suite.tests) |->
                         [path |-> <<c.name, stage.name, lesson.name,
                                     suite.name, suite.tests[t].name>>,
                          passed |-> FALSE]]])])])

\* test.path.last()
TestNameOf(test) == test.path[Len(test.path)]

\* db_update of cli/src/db.rs:103-180, as the sequence of writes it issues:
\* the identities that are only in the new set are zipped with tests_new
\* from its start (cli/src/db.rs:136-150)
db_update_cli(t, tests_new) ==
    LET stored == Get(t, KEY_TESTS)
        names == [i \in 1..Len(tests_new) |-> TestNameOf(tests_new[i])]
    IN IF stored.tag # "None"
       THEN LET tests_old_set == Dedup(stored.keys)
                tests_new_set == Dedup(names)
                tests_deprecated == Difference(tests_old_set, tests_new_set)
                unknown == Difference(tests_new_set, tests_old_set)
                tests_unkown ==
                    [i \in 1..(IF Len(unknown) < Len(tests_new)
                               THEN Len(unknown) ELSE Len(tests_new)) |->
                        <<unknown[i], tests_new[i]>>]
            IN [i \in 1..Len(tests_deprecated) |->
                   RemoveOp(ScaleEncode(tests_deprecated[i]))]
               \o [i \in 1..Len(tests_unkown) |->
                      InsertOp(ScaleEncode(tests_unkown[i][1]),
                               TestVal(tests_unkown[i][2]))]
               \o <<InsertOp(KEY_TESTS, KeysVal(tests_new_set))>>
       ELSE [i \in 1..Len(tests_new) |->
                InsertOp(ScaleEncode(names[i]), TestVal(tests_new[i]))]
            \o <<InsertOp(KEY_TESTS, KeysVal(names))>>

\* Monitor::new of this revision: the course file is loaded, the watermark
\* is compared and written, db_update runs when the file is newer.  written
\* is the number of writes the store accepted
MonitorNewCli ==
    /\ pc = "idle"
    /\ invocations < MaxInvocations
    /\ \E c \in NamedCourses, time \in mtime..MaxTime :
          LET check == db_should_update(tree, time)
              ops == db_update_cli(check.tree, list_tests_v2(c))
          IN /\ mtime' = time
             /\ course_v2' = c
             /\ IF check.should_update
                THEN \E written \in 0..Len(ops) :
                        /\ tree' = ApplyOps(check.tree,
                                            SubSeq(ops, 1, written))
                        /\ reconciled' = (written = Len(ops))
                        /\ exit_code' = IF written = Len(ops) THEN 0 ELSE 1
                ELSE /\ tree' = check.tree
                     /\ reconciled' = FALSE
                     /\ exit_code' = 0
    /\ invocations' = invocations + 1
    /\ tests_old' = StoredTestNames(tree)
    /\ UNCHANGED <<pc, tester, runnerVars, checkVars, command, state_v2,
                   success_v2, log_v2, listerVars>>

SpecCli == Init /\ [][MonitorNewCli]_vars

MonitorNew == MonitorNewOf(Definitions, MaxInvocations)

Next ==
    \/ MonitorNew
    \/ MainList
    \/ IntoRunner
    \/ IntoRunnerStaggered
    \/ RunLoaded
    \/ RunNewTest
    \/ RunFail
    \/ RunPass
    \/ MainExit

Spec == Init /\ [][Next]_vars

\* one invocation on a fresh store, over the larger course definitions
MonitorNewRun == MonitorNewOf(RunDefinitions, 1)

NextRun ==
    \/ MonitorNewRun
    \/ MainList
    \/ IntoRunner
    \/ MainTest
    \/ IntoRunnerStaggered
    \/ RunLoaded
    \/ RunNewTest
    \/ RunFail
    \/ RunPass
    \/ MainExit

SpecRun == Init /\ [][NextRun]_vars

\* reconciliations only, over course definitions with repeated tests and
\* names that differ by case: each invocation is `test --list`
MonitorNewReconcile == MonitorNewOf(ReconcileDefinitions, MaxInvocations)

NextReconcile ==
    \/ MonitorNewReconcile
    \/ MainList

SpecReconcile == Init /\ [][NextReconcile]_vars

\* one invocation of `test` on a fresh store, over course definitions
\* whose tests share a prefix of their names
MonitorNewOrder == MonitorNewOf(OrderDefinitions, 1)

NextOrder ==
    \/ MonitorNewOrder
    \/ IntoRunner
    \/ MainTest
    \/ IntoRunnerStaggered
    \/ RunLoaded
    \/ RunNewTest
    \/ RunFail
    \/ RunPass
    \/ MainExit

SpecOrder == Init /\ [][NextOrder]_vars

\* one invocation of `check` on a fresh store
MonitorNewCheck == MonitorNewOf(CheckDefinitions, 1)

NextCheck ==
    \/ MonitorNewCheck
    \/ IntoValidator
    \/ ValidateLoaded
    \/ ValidateCourse
    \/ ValidateSection
    \/ ValidateLesson
    \/ ValidateSuite
    \/ ValidateTest
    \/ ValidateFail
    \/ ValidatePass
    \/ MainExitCheck

SpecCheck == Init /\ [][NextCheck]_vars

\* The store is shared with whatever else holds the database: while a runner
\* exists, another writer changes a field of a stored record (its optional
\* flag, or its name) after the runner took its snapshot.  This is the
\* value update_and_fetch hands to test_pass / test_fail as `old`.
ExternalWrite ==
    /\ pc = "runner"
    /\ \E k \in DOMAIN tree, field \in {"optional", "name"} :
          /\ tree[k].tag = "TestState"
          /\ tree' = Insert(tree, k,
                 TestVal(IF field = "optional"
                         THEN [tree[k].test EXCEPT !.optional = ~@]
                         ELSE [tree[k].test EXCEPT !.name = <<122>>]))
    /\ UNCHANGED <<mtime, pc, invocations, tester, reconciled, tests_old,
                   runnerVars, checkVars, v2Vars, listerVars, exit_code, command>>

\* one invocation on a fresh store, with a second writer of the store
MonitorNewRecord == MonitorNewOf(Definitions, 1)

NextRecord ==
    \/ MonitorNewRecord
    \/ IntoRunner
    \/ IntoRunnerStaggered
    \/ ExternalWrite
    \/ RunLoaded
    \/ RunNewTest
    \/ RunFail
    \/ RunPass
    \/ MainExit

SpecRecord == Init /\ [][NextRecord]_vars

\* the tester definitions of the model of finished machines: a lesson
\* without suites and without tests; a lesson with a suite of two tests
\* whose tests a and c (optional) are listed for the runner, then a lesson
\* without suites
FinishDefinitions ==
    {WellFormed(<< <<None>> >>),
     [WellFormed(<< <<Some(<<2>>), None>> >>)
         EXCEPT !.sections[1].lessons[1].tests =
                    Some(<<JsonTest(NameA, FALSE), JsonTest(NameC, TRUE)>>)]}

\* one invocation of `test`, `test --list` or `check` on a fresh store, in
\* which run() may be called again on a machine that is finished
MonitorNewFinish == MonitorNewOf(FinishDefinitions, 1)

NextFinish ==
    \/ MonitorNewFinish
    \/ IntoRunner
    \/ RunLoaded
    \/ RunNewTest
    \/ RunFail
    \/ RunPass
    \/ RunFinish
    \/ MainExit
    \/ IntoValidator
    \/ ValidateLoaded
    \/ ValidateCourse
    \/ ValidateSection
    \/ ValidateLesson
    \/ ValidateSuite
    \/ ValidateTest
    \/ ValidateFail
    \/ ValidatePass
    \/ ValidateFinish
    \/ MainExitCheck
    \/ IntoLister
    \/ ListLoaded
    \/ ListList
    \/ ListError
    \/ ListFinished
    \/ MainExitList

SpecFinish == Init /\ [][NextFinish]_vars

\* two invocations over the course definitions of Spec, each running
\* `test --all`, `test <name>`, the staggered run or `test --list`, the
\* lister taken state by state
MonitorNewList == MonitorNewOf(Definitions, 2)

NextList ==
    \/ MonitorNewList
    \/ IntoRunner
    \/ IntoRunnerStaggered
    \/ RunLoaded
    \/ RunNewTest
    \/ RunFail
    \/ RunPass
    \/ MainExit
    \/ IntoLister
    \/ ListLoaded
    \/ ListList
    \/ ListError
    \/ MainExitList

SpecList == Init /\ [][NextList]_vars

(***************************************************************************)
(* Properties of reconciliation.                                           *)
(***************************************************************************)
\* position of an identity in a list of identities
IndexOf(keys, k) == CHOOSE i \in 1..Len(keys) : keys[i] = k

\* the identities of the definition loaded by Monitor::new
NewKeys == IndexMapKeys(list_tests(tester))

\* C1: for every identity that is both in the stored TestIndex and in the
\* new tests, a completed db_update leaves the stored record unchanged,
\* validation state included, whatever its old and new positions.
C1_ReconcileKeepsCommonRecords ==
    [][(pc = "idle" /\ reconciled')
       => \A k \in Range(StoredTestNames(tree))
                   \cap Range(IndexMapKeys(list_tests(tester'))) :
             Get(tree', k) = Get(tree, k)]_vars

\* a completed reconciliation kept a record whose state is Pass and whose
\* position in the index changed
C1_Witness ==
    /\ pc = "monitor"
    /\ reconciled
    /\ \E k \in Range(tests_old) \cap Range(NewKeys) :
          /\ IndexOf(tests_old, k) # IndexOf(NewKeys, k)
          /\ Get(tree, k).tag = "TestState"
          /\ Get(tree, k).test.passed = "Pass"

\* the keys of the records a fetch returns
FetchedKeys(entries) == {entries[i].key : i \in 1..Len(entries)}

\* C2: after a completed db_update, every identity of the old TestIndex that
\* is absent from the new tests is unreadable: reading its key returns
\* nothing and no fetch (all, window, prefix) returns its record.
C2_RemovedIdentityUnreadable ==
    (pc = "monitor" /\ reconciled)
    => \A k \in Range(tests_old) \ Range(NewKeys) :
          /\ Get(tree, k).tag = "None"
          /\ k \notin FetchedKeys(tests_accumulate_all(tree))
          /\ \A n \in 0..Len(StoredTestNames(tree)) :
                k \notin FetchedKeys(tests_accumulate_some(tree, n))
          /\ \A name \in NameArgs :
                k \notin FetchedKeys(
                             tests_accumulate_matching(PathToKey(name), tree))

\* the number of tests written in the definition loaded by Monitor::new
DefinedTests ==
    LET defined == tester.sections[1].lessons[1].tests
    IN IF defined.tag = "Some" THEN Len(defined.some) ELSE 0

ResumeCursor(t) ==
    LET query == Get(t, KEY_STAGGERED)
    IN IF query.tag = "u32" THEN query.num ELSE 1

\* C12: after a completed db_update the persisted resume cursor is 1,
\* whatever value a previous run had stored.
C12_ReconcileResetsCursor ==
    (pc = "monitor" /\ reconciled) => ResumeCursor(tree) = 1

(***************************************************************************)
(* Properties of the list-driven runner.                                   *)
(***************************************************************************)
\* the snapshot of the test a log entry is about
TestOf(e) == tests[e.index_test + 1].test

\* the run stopped at the test of log entry e
StoppedAt(e) ==
    \/ state.tag = "Fail" /\ state.index_test = e.index_test
    \/ state.tag = "Finish" /\ on_fail_calls = <<e.index_test>>

\* the run went on after the test of log entry number i
WentOnAfter(i) ==
    IF log[i].index_test + 1 < Len(tests)
    THEN \/ state = NewTest(log[i].index_test + 1)
         \/ /\ Len(log) > i
            /\ log[i + 1].index_test = log[i].index_test + 1
    ELSE state.tag = "Pass" \/ on_pass_calls = 1

\* C3: the first failing test that is not optional moves the run to Fail and
\* no test after it is executed; a failing optional test alone (its outcome
\* recorded and reported) never moves the run to Fail, the next test is
\* executed instead.
C3_FirstMandatoryFailureHalts ==
    \A i \in 1..Len(log) :
       /\ (log[i].result = "Fail" /\ ~TestOf(log[i]).optional)
          => /\ i = Len(log)
             /\ StoppedAt(log[i])
             /\ on_pass_calls = 0
       /\ (log[i].result = "Fail" /\ TestOf(log[i]).optional
           /\ log[i].updated /\ log[i].sent)
          => /\ ~StoppedAt(log[i])
             /\ WentOnAfter(i)

\* the subset [optional, mandatory, mandatory]: the first fails and the run
\* goes on, the second fails and the run is in Fail with the third not
\* executed
C3_Witness ==
    /\ Len(tests) = 3
    /\ tests[1].test.optional
    /\ ~tests[2].test.optional
    /\ ~tests[3].test.optional
    /\ Len(log) = 2
    /\ log[1].result = "Fail" /\ log[1].updated /\ log[1].sent
    /\ log[2].result = "Fail" /\ log[2].updated /\ log[2].sent
    /\ state.tag = "Fail"
    /\ state.index_test = 1

\* C4: a transport error on the `log` frame of a test does not change the
\* final state of the run: the run does not stop at that test unless the
\* test is a mandatory failure, and the tests after it are still executed.
C4_LogSendFailureKeepsRunning ==
    \A i \in 1..Len(log) :
       (/\ log[i].updated
        /\ ~log[i].sent
        /\ ~(log[i].result = "Fail" /\ ~TestOf(log[i]).optional))
       => /\ ~StoppedAt(log[i])
          /\ WentOnAfter(i)

\* position of a frame type in the protocol of one stream
FrameRank(f) ==
    CASE f.event_type = "init" -> 0
      [] f.event_type = "log" -> 1
      [] f.event_type = "status" -> 2
      [] f.event_type = "disconnect" -> 3

IsLogFrame(f) == f.event_type = "log"
IsRecorded(e) == e.updated

\* C13: on an invocation that opens the stream the frames are, in order,
\* one `init`, one `log` per executed test whose outcome was recorded, in
\* execution order, exactly one `status`, one `disconnect`, no `log` after
\* `status`; an invocation that has sent `init` does not end without
\* attempting `status` and `disconnect`.
C13_FrameProtocol ==
    frames # <<>>
    => LET logFrames == SelectSeq(frames, IsLogFrame)
           recorded == SelectSeq(log, IsRecorded)
           n == Len(frames)
       IN /\ frames[1].event_type = "init"
          /\ \A i \in 2..n : frames[i].event_type # "init"
          /\ \A i, j \in 1..n : i < j => FrameRank(frames[i]) <= FrameRank(frames[j])
          /\ Cardinality({i \in 1..n : frames[i].event_type = "status"}) <= 1
          /\ Cardinality({i \in 1..n : frames[i].event_type = "disconnect"}) <= 1
          /\ Len(logFrames) = Len(recorded)
          /\ \A i \in 1..Len(logFrames) :
                /\ logFrames[i].payload.slug = TestOf(recorded[i]).slug
                /\ logFrames[i].payload.state =
                      (IF recorded[i].result = "Pass" THEN "Passed"
                       ELSE "Failed")
          /\ (pc = "idle" /\ frames[1].ok)
             => /\ n >= 3
                /\ frames[n - 1].event_type = "status"
                /\ frames[n].event_type = "disconnect"

\* the value stored under KEY_STAGGERED, 0 when there is none
Cursor(t) ==
    IF Get(t, KEY_STAGGERED).tag = "u32" THEN Get(t, KEY_STAGGERED).num
    ELSE 0

\* C5 as stated: after a run that went through Pass over N tests the cursor
\* is N, after a run that went through Fail at index k it is k + 1, for the
\* runs of into_runner and of into_runner_staggered alike.
C5_CursorIsLengthOrFailureIndex ==
    state.tag = "Finish"
    => Cursor(tree) = IF on_pass_calls = 1 THEN Len(tests)
                      ELSE on_fail_calls[1] + 1

\* C5 amended: after a run that went through Fail at index k the cursor is
\* k + 1; after a run that went through Pass the cursor is the number N of
\* tests of the run when the run was built by into_runner, and c + 1, where
\* c is the cursor read when the run was built (1 when none was stored),
\* when the run was built by into_runner_staggered.
C5_CursorAfterRun ==
    state.tag = "Finish"
    => Cursor(tree) =
          IF on_pass_calls = 0 THEN on_fail_calls[1] + 1
          ELSE IF built.by = "into_runner" THEN Len(tests)
          ELSE built.staggered + 1

\* a staggered run over a window of 2 tests, built with cursor 2, passed
C5_Witness ==
    /\ state.tag = "Finish"
    /\ built.by = "into_runner_staggered"
    /\ built.staggered = 2
    /\ Len(tests) = 2
    /\ on_pass_calls = 1
    /\ Cursor(tree) = 3

\* C6: on every run from Loaded to Finish, whatever the subset, the
\* outcomes, the store failures and the transport failures, on_finish is
\* invoked exactly once.
C6_OnFinishExactlyOnce ==
    /\ state.tag = "Finish" => on_finish_calls = 1
    /\ state.tag \in {"NoRunner", "Loaded", "NewTest", "Pass", "Fail"}
       => on_finish_calls = 0

\* a finished run that stopped on a store failure and whose status frame
\* was not accepted
C6_Witness ==
    /\ state.tag = "Finish"
    /\ on_finish_calls = 1
    /\ \E i \in 1..Len(log) : ~log[i].updated
    /\ \E i \in 1..Len(frames) :
          frames[i].event_type = "status" /\ ~frames[i].ok

\* number of executed tests that passed
Passes == Cardinality({i \in 1..Len(log) : log[i].result = "Pass"})

\* C7: when the run reaches Pass the score is success * 100 / total, total
\* being the number of tests of the subset and success the number of tests
\* that passed; failed optional tests count in total only, so 4 passes and
\* 1 optional failure give 80 (9 passes and 1 optional failure give 90).
C7_ScoreIsPassesOverTotal ==
    score # -1
    => /\ Len(log) = Len(tests)
       /\ 2 * score * Len(tests) - 2 * 10000 * Passes <= Len(tests)
       /\ 2 * 10000 * Passes - 2 * score * Len(tests) <= Len(tests)
       /\ (Len(tests) = 5 /\ Passes = 4) => score = 8000
       /\ (Len(tests) = 10 /\ Passes = 9) => score = 9000

\* 5 tests, 4 passed and 1 optional test failed: the run went through Pass
\* with 80.00
C7_Witness ==
    /\ Len(tests) = 5
    /\ Passes = 4
    /\ \E i \in 1..Len(log) :
          log[i].result = "Fail" /\ TestOf(log[i]).optional
    /\ on_pass_calls = 1
    /\ score = 8000

\* C8: the runner reaches Pass only when every test of the subset has been
\* executed exactly once, in subset order, and none of them caused a
\* halting failure (no mandatory failure, no failed update of the record).
C8_PassOnlyAfterEveryTest ==
    (state.tag = "Pass" \/ on_pass_calls > 0)
    => /\ Len(log) = Len(tests)
       /\ Len(tests) > 0
       /\ \A i \in 1..Len(log) :
             /\ log[i].index_test = i - 1
             /\ log[i].updated
             /\ log[i].result = "Fail" => TestOf(log[i]).optional

\* Pass reached over 3 tests, one of them an optional failure
C8_Witness ==
    /\ state.tag = "Pass"
    /\ Len(tests) = 3
    /\ \E i \in 1..Len(log) : log[i].result = "Fail"

\* the validation states of the test records of the store
StoredStates(t) ==
    {t[k].test.passed : k \in {x \in DOMAIN t : t[x].tag = "TestState"}}

\* C9: a runner built with an empty subset goes from Loaded to Fail ('no
\* tests found') without executing a command or writing a test record, then
\* to Finish.
C9_EmptySubsetFails ==
    (pc = "runner" /\ tests = <<>>)
    => /\ \/ state = Loaded
          \/ state = Fail(0, "no tests found")
          \/ state = Finish /\ on_fail_calls = <<0>> /\ on_pass_calls = 0
       /\ log = <<>>
       /\ StoredStates(tree) \subseteq {"Unknown"}
       /\ \A i \in 1..Len(frames) : frames[i].event_type # "log"

\* a finished run over an empty subset while the store holds test records
C9_Witness ==
    /\ pc = "runner"
    /\ tests = <<>>
    /\ state = Finish
    /\ StoredStates(tree) = {"Unknown"}

\* C10: when the record of the test being executed has disappeared from the
\* store, or its update errors, the runner moves to Fail at that test,
\* whatever the result and whether or not the test is optional; it does not
\* retry and executes no later test.
C10_FailedUpdateHalts ==
    /\ \A i \in 1..Len(log) :
          ~log[i].updated
          => /\ i = Len(log)
             /\ StoppedAt(log[i])
             /\ on_pass_calls = 0
    /\ \A i, j \in 1..Len(log) :
          i < j => log[i].index_test < log[j].index_test

\* an optional test passed, its record had disappeared, the run is in Fail
\* at that test and a later test exists
C10_Witness ==
    /\ state.tag = "Fail"
    /\ Len(log) > 0
    /\ log[Len(log)].result = "Pass"
    /\ TestOf(log[Len(log)]).optional
    /\ ~log[Len(log)].updated
    /\ log[Len(log)].key \notin DOMAIN tree
    /\ state.index_test = log[Len(log)].index_test
    /\ state.index_test + 1 < Len(tests)

(***************************************************************************)
(* Properties of the validator.                                            *)
(***************************************************************************)
\* index paths from 0, as in ValidatorStateV1; <<>> is the course
OneBased(p) == [m \in 1..Len(p) |-> p[m] + 1]
ZeroBased(p) == [m \in 1..Len(p) |-> p[m] - 1]

\* the nodes of the course the validator owns
CourseNodes == {<<>>} \cup {ZeroBased(p) : p \in NodePaths(tester)}

NameOf(p) ==
    IF p = <<>> THEN course.name ELSE NodeAt(tester, OneBased(p)).name
SlugOf(p) ==
    IF p = <<>> THEN course.slug ELSE NodeAt(tester, OneBased(p)).slug

\* the names from the course root to the node at p
NamePath(p) == [n \in 1..(Len(p) + 1) |-> NameOf(SubSeq(p, 1, n - 1))]

\* the declared slug of the node at p differs from the hash of its name path
Mismatch(p) == SlugOf(p) # SlugExpected(NamePath(p))

\* the node the validator is visiting
VisitedNode ==
    CASE vstate.tag = "Course" -> <<>>
      [] vstate.tag = "Section" -> <<vstate.index_section>>
      [] vstate.tag = "Lesson" ->
            <<vstate.index_section, vstate.index_lesson>>
      [] vstate.tag = "Suite" ->
            <<vstate.index_section, vstate.index_lesson, vstate.index_suite>>
      [] vstate.tag = "Test" ->
            <<vstate.index_section, vstate.index_lesson, vstate.index_suite,
              vstate.index_test>>

Visiting ==
    /\ pc = "validator"
    /\ vstate.tag \in {"Course", "Section", "Lesson", "Suite", "Test"}
    /\ VisitedNode \in CourseNodes

\* C14: when the declared slug of the visited node differs from the hash of
\* the name path from the course root to it, the next state is Fail with
\* the declared and the expected slug; from Fail no further node is visited
\* and the next state is Finish.
C14_MismatchHalts ==
    [][/\ (Visiting /\ Mismatch(VisitedNode))
          => vstate' = VFail(SlugOf(VisitedNode),
                             SlugExpected(NamePath(VisitedNode)))
       /\ (pc = "validator" /\ vstate.tag = "Fail")
          => (vstate' = VFinish /\ checked' = checked)]_vars

\* C15: the validator is in Pass only when the slug of every node of every
\* level (course, sections, lessons, suites, tests) has been compared with
\* the hash of its name path and found equal.
C15_PassOnlyAfterEveryNode ==
    (pc = "validator" /\ vstate.tag = "Pass")
    => \A p \in CourseNodes :
          /\ ~Mismatch(p)
          /\ \E n \in 1..Len(checked) :
                checked[n].path = p /\ checked[n].ok

\* the names of a well-formed course, by position
CanonicalNameOf(p) ==
    CASE Len(p) = 0 -> CourseName
      [] Len(p) = 1 -> SectionNameAt(p[1] + 1)
      [] Len(p) = 2 -> LessonNameAt(p[2] + 1)
      [] Len(p) = 3 -> SuiteNameAt(p[3] + 1)
      [] Len(p) = 4 -> TestNameAt(p[4] + 1)

CanonicalPath(p) ==
    [n \in 1..(Len(p) + 1) |-> CanonicalNameOf(SubSeq(p, 1, n - 1))]

\* the course is a well-formed course in which the name of the node r alone
\* was changed
SingleRename(r) ==
    /\ \A p \in CourseNodes :
          /\ SlugOf(p) = SlugExpected(CanonicalPath(p))
          /\ (NameOf(p) # CanonicalNameOf(p)) <=> (p = r)

HasDescendants(r) == \E p \in CourseNodes : Len(p) > Len(r) /\ IsPrefix(r, p)

\* C16: in a well-formed course in which the name of one node with
\* descendants was changed, the validator ends in Fail at the first node in
\* depth-first order whose name path contains the changed name, which is
\* the renamed node itself, and reports valid no node whose path contains
\* the changed name.
C16_RenameHaltsAtFirstAffected ==
    pc = "validator"
    => \A r \in CourseNodes :
          (SingleRename(r) /\ HasDescendants(r))
          => /\ vstate.tag # "Pass"
             /\ \A n \in 1..Len(checked) :
                   checked[n].ok => ~IsPrefix(r, checked[n].path)
             /\ vstate.tag \in {"Fail", "Finish"}
                => checked[Len(checked)] = Line(r, SlugOf(r), FALSE)

(***************************************************************************)
(* Properties of the process.                                              *)
(***************************************************************************)
\* the validator went through Fail, or through Pass
ValidatorFailed ==
    vstate.tag = "Finish" /\ ~checked[Len(checked)].ok
ValidatorPassed ==
    vstate.tag = "Finish" /\ checked[Len(checked)].ok

\* C17: when an invocation of `test` or `check` that built a runner or a
\* validator has ended, its exit status is non-zero if the state machine
\* went through Fail and is zero only if it went through Pass.
C17_ExitStatusReflectsFinalState ==
    (/\ pc = "idle"
     /\ exit_code # -1
     /\ (state.tag # "NoRunner" \/ vstate.tag # "NoValidator"))
    => /\ (on_fail_calls # <<>> \/ ValidatorFailed) => exit_code # 0
       /\ exit_code = 0 => (on_pass_calls = 1 \/ ValidatorPassed)

(***************************************************************************)
(* Properties of the fetches.                                              *)
(***************************************************************************)
\* C18: when an entry returned by the fetch of into_runner or
\* into_runner_staggered (all, matching, window) does not decode, the
\* invocation ends with an error: no runner is built, no list of the
\* entries that did decode is handed over, no test is executed; a runner
\* that is built received every entry of the fetch.
C18_DecodeErrorAbortsFetch ==
    /\ (\E i \in 1..Len(fetched) : ~fetched[i].ok)
       => /\ pc = "idle"
          /\ exit_code = 1
          /\ state = NoRunner
          /\ tests = <<>>
          /\ log = <<>>
          /\ frames = <<>>
    /\ state.tag # "NoRunner"
       => /\ Len(tests) = Len(fetched)
          /\ \A i \in 1..Len(fetched) :
                fetched[i].ok /\ tests[i].key = fetched[i].key

\* a fetch of the whole index of three tests, the record of the second one
\* damaged and the two others decoded
C18_Witness ==
    /\ pc = "idle"
    /\ Len(fetched) = 3
    /\ [i \in 1..3 |-> fetched[i].key] = StoredTestNames(tree)
    /\ fetched[1].ok
    /\ ~fetched[2].ok
    /\ fetched[3].ok
    /\ state = NoRunner

\* the entries of the first n identities of the index, in index order
IndexPrefixEntries(t, n) ==
    LET index == StoredTestNames(t)
        m == IF n < Len(index) THEN n ELSE Len(index)
    IN [i \in 1..m |-> DecodeEntry(index[i], Get(t, index[i]))]

\* the first n identities of the index all have a record
PrefixStored(t, n) ==
    LET index == StoredTestNames(t)
    IN \A i \in 1..Len(index) : i <= n => Get(t, index[i]).tag # "None"

\* C19 as stated: on every store, tests_accumulate_some(n) returns the
\* records of the first min(n, length of the index) identities of the
\* index, in index order, and tests_accumulate_all those of all identities.
C19_WindowIsIndexPrefix ==
    LET len == Len(StoredTestNames(tree))
    IN /\ \A n \in 0..(len + 1) :
             tests_accumulate_some(tree, n) = IndexPrefixEntries(tree, n)
       /\ tests_accumulate_all(tree) = IndexPrefixEntries(tree, len)

\* C19 amended: when each of the first min(n, length of the index)
\* identities has a record in the store, tests_accumulate_some(n) returns
\* their records in index order, and nothing when one of them has no
\* record; likewise tests_accumulate_all over the whole index.
C19_WindowIsStoredIndexPrefix ==
    LET len == Len(StoredTestNames(tree))
    IN /\ \A n \in 0..(len + 1) :
             tests_accumulate_some(tree, n) =
                IF PrefixStored(tree, n) THEN IndexPrefixEntries(tree, n)
                ELSE <<>>
       /\ tests_accumulate_all(tree) =
             IF PrefixStored(tree, len) THEN IndexPrefixEntries(tree, len)
             ELSE <<>>

\* a runner built by into_runner_staggered with cursor 1 over an index of
\* two identities: it received the record of the first identity alone
C19_Witness ==
    /\ state = Loaded
    /\ built.by = "into_runner_staggered"
    /\ built.staggered = 1
    /\ Len(StoredTestNames(tree)) = 2
    /\ Len(tests) = 1
    /\ tests[1].key = StoredTestNames(tree)[1]
    /\ tests[1].test = Get(tree, tests[1].key).test

\* the keys of the store that do not hold test records (db.rs:18-21)
ReservedKeys == {KEY_TIME, KEY_TESTS, KEY_STAGGERED, KEY_METADATA}

\* C20: whatever the prefix, tests_accumulate_matching returns the records
\* of the identities of the current index that start with the prefix and
\* nothing else: no entry for an identity outside the index, no reserved
\* key returned or decoded as a test record.
C20_MatchingReturnsIndexRecordsOnly ==
    \A name \in NameArgs :
       LET prefix == PathToKey(name)
           entries == tests_accumulate_matching(prefix, tree)
           index == Range(StoredTestNames(tree))
       IN /\ FetchedKeys(entries) \cap ReservedKeys = {}
          /\ FetchedKeys(entries) \subseteq index
          /\ \A k \in index :
                (IsPrefix(prefix, k) /\ Get(tree, k).tag # "None")
                => k \in FetchedKeys(entries)
          /\ \A k \in FetchedKeys(entries) : IsPrefix(prefix, k)

(***************************************************************************)
(* Properties of the watermark and of retries.                             *)
(***************************************************************************)
\* C21: on every store the program reaches and for every modification time,
\* db_should_update answers true iff no watermark is stored or the time is
\* strictly greater than the watermark; afterwards the stored watermark is
\* that time and no other key changed, so a second call with the same time
\* answers false; and after Monitor::new the watermark is the modification
\* time of the working directory.
C21_ShouldReconcile ==
    /\ \A time \in 0..MaxTime :
          LET stored == Get(tree, KEY_TIME)
              first == db_should_update(tree, time)
              second == db_should_update(first.tree, time)
          IN /\ first.should_update
                   <=> (stored.tag = "None" \/ time > stored.time)
             /\ Get(first.tree, KEY_TIME) = I64Val(time)
             /\ \A k \in (DOMAIN tree \cup DOMAIN first.tree) \ {KEY_TIME} :
                   Get(first.tree, k) = Get(tree, k)
             /\ ~second.should_update
             /\ second.tree = first.tree
    /\ invocations > 0 => Get(tree, KEY_TIME) = I64Val(mtime)

\* a second invocation found the working directory unchanged, at a
\* modification time above zero, and did not reconcile
C21_Witness ==
    /\ pc = "monitor"
    /\ invocations = 2
    /\ mtime = MaxTime
    /\ ~reconciled
    /\ Get(tree, KEY_TIME) = I64Val(mtime)
    /\ Get(tree, KEY_TESTS).tag = "VecString"

\* the test records of a store
StoredRecords(t) == {t[k].test : k \in {x \in DOMAIN t : t[x].tag = "TestState"}}

\* the tests of the only lesson of a definition of the reconciliation model
OnlyLessonTests(def) ==
    LET lesson == def.sections[1].lessons[1]
    IN IF lesson.tests.tag = "Some" THEN lesson.tests.some ELSE <<>>

\* C22: when the only test of the stored definition is renamed (the new
\* definition has one test, under another name, letter case included), a
\* completed reconciliation leaves a record of the new name with validation
\* state Unknown and no record of the old name.
C22_RenameIsNewIdentity ==
    [][(/\ pc = "idle"
        /\ reconciled'
        /\ Len(StoredTestNames(tree)) = 1
        /\ Get(tree, StoredTestNames(tree)[1]).tag = "TestState"
        /\ Len(OnlyLessonTests(tester')) = 1
        /\ OnlyLessonTests(tester')[1].name
              # Get(tree, StoredTestNames(tree)[1]).test.name)
       => LET old == Get(tree, StoredTestNames(tree)[1]).test
              new == OnlyLessonTests(tester')[1]
          IN /\ \E r \in StoredRecords(tree') :
                   r.name = new.name /\ r.passed = "Unknown"
             /\ \A r \in StoredRecords(tree') : r.name # old.name]_vars

\* the store holds what a completed db_update of the definition leaves: the
\* metadata, the index of the identities of the definition, and a record
\* for each of them
IsReconciledTo(t, def) ==
    /\ Get(t, KEY_METADATA).tag = "CourseMetaData"
    /\ Get(t, KEY_TESTS) = KeysVal(IndexMapKeys(list_tests(def)))
    /\ \A k \in Range(IndexMapKeys(list_tests(def))) :
          Get(t, k).tag = "TestState"

\* C23: when an invocation failed in Monitor::new after db_should_update
\* (fetch_metadata or a write of db_update failed) and the next invocation
\* loads the same definition with the working directory unchanged and gets
\* past Monitor::new, that invocation ran db_update to completion and the
\* store holds the metadata, the index and the records of the definition.
C23_RetryReconciles ==
    [][(/\ pc = "idle"
        /\ exit_code = 1
        /\ tester # TesterOf(<<>>)
        /\ invocations' = invocations + 1
        /\ tester' = tester
        /\ mtime' = mtime
        /\ pc' = "monitor")
       => (reconciled' /\ IsReconciledTo(tree', tester'))]_vars

(***************************************************************************)
(* Properties of the store after a run.                                    *)
(***************************************************************************)
\* the run went through Fail: the runner is in Fail, or in Finish after
\* on_fail was called
RunFailed ==
    /\ pc = "runner"
    /\ tests # <<>>
    /\ \/ state.tag = "Fail"
       \/ state.tag = "Finish" /\ on_fail_calls # <<>>

\* the index of the test at which the run failed
FailedAt ==
    IF state.tag = "Fail" THEN state.index_test ELSE on_fail_calls[1]

SubsetKeys == {tests[i].key : i \in 1..Len(tests)}

\* the records of the tests after the failure are those the fetch read
LaterRecordsKept ==
    \A i \in (FailedAt + 2)..Len(tests) :
       Get(tree, tests[i].key) = TestVal(tests[i].test)

\* a step of the runner leaves the records of the identities of the index
\* that are not in its list as they are
RunnerStepKeepsOthers ==
    pc = "runner"
    => \A k \in Range(StoredTestNames(tree)) \ SubsetKeys :
          Get(tree', k) = Get(tree, k)

\* C24 as stated: after a run that ends in Fail at test k, the stored state
\* of each test 0..k is the outcome it had in the run, and the records of
\* the tests after k and of the tests outside the list are unchanged.
C24_ProgressSurvives ==
    [][/\ RunnerStepKeepsOthers
       /\ RunFailed'
          => /\ Len(log') = FailedAt' + 1
             /\ \A i \in 1..Len(log') :
                   /\ Get(tree', tests'[i].key).tag = "TestState"
                   /\ Get(tree', tests'[i].key).test.passed = log'[i].result
             /\ LaterRecordsKept']_vars

\* C24 amended: the same, but the test whose update failed has no stored
\* outcome: its record is the one the fetch read, or is absent.
C24_ProgressSurvivesUpdates ==
    [][/\ RunnerStepKeepsOthers
       /\ RunFailed'
          => /\ Len(log') = FailedAt' + 1
             /\ \A i \in 1..Len(log') :
                   IF log'[i].updated
                   THEN /\ Get(tree', tests'[i].key).tag = "TestState"
                        /\ Get(tree', tests'[i].key).test.passed
                              = log'[i].result
                   ELSE /\ i = Len(log')
                        /\ Get(tree', tests'[i].key)
                              \in {None, TestVal(tests'[i].test)}
             /\ LaterRecordsKept']_vars

\* a run over at least three tests ended at its second test, a mandatory
\* test that failed, after the first had passed
C24_Witness ==
    /\ pc = "runner"
    /\ state.tag = "Finish"
    /\ on_fail_calls = <<1>>
    /\ Len(tests) >= 3
    /\ Len(log) = 2
    /\ log[1].result = "Pass" /\ log[1].updated
    /\ log[2].result = "Fail" /\ log[2].updated
    /\ Get(tree, tests[1].key).test.passed = "Pass"
    /\ Get(tree, tests[2].key).test.passed = "Fail"

(***************************************************************************)
(* Properties of the entry points of main.                                 *)
(***************************************************************************)
\* C25: no step of an invocation of `check` changes the store: no watermark
\* update, no reconciliation, no record change.
C25_CheckLeavesStore == [][tree' = tree]_vars

\* the identities of the records the runner was built with
RunnerKeys == [i \in 1..Len(tests) |-> tests[i].key]

\* C26: the runner main builds for `test` with no name and no option holds
\* the records of the first c identities of the index, c being the stored
\* resume cursor, 1 when none is stored.
C26_PlainTestIsStaggered ==
    (pc = "runner" /\ command = "test" /\ state.tag = "Loaded")
    => RunnerKeys = Take(StoredTestNames(tree), ResumeCursor(tree))

\* C27: in every selection mode the runner holds the selected tests in the
\* relative order they have in the index, which is their order in the
\* course definition, and executes them in the order it holds them.
C27_RunsInDefinitionOrder ==
    pc = "runner"
    => /\ \A i, j \in 1..Len(tests) :
             (/\ i < j
              /\ tests[i].key \in Range(StoredTestNames(tree))
              /\ tests[j].key \in Range(StoredTestNames(tree)))
             => IndexOf(StoredTestNames(tree), tests[i].key)
                  < IndexOf(StoredTestNames(tree), tests[j].key)
       /\ Len(log) <= Len(tests)
       /\ \A i \in 1..Len(log) : log[i].key = tests[i].key

\* C28: whatever the outcome of sending `status` and `disconnect`, the step
\* out of Fail or Pass calls the hooks, hands both frames to the websocket
\* in this order, leaves every record as it is, stores the cursor of the
\* run and ends in Finish.
C28_FinalFramesDoNotMatter ==
    [][(pc = "runner" /\ state.tag \in {"Fail", "Pass"})
       => /\ state' = Finish
          /\ Len(frames') = Len(frames) + 2
          /\ SubSeq(frames', 1, Len(frames)) = frames
          /\ frames'[Len(frames) + 1].event_type = "status"
          /\ frames'[Len(frames) + 1].payload = (state.tag = "Pass")
          /\ frames'[Len(frames) + 2].event_type = "disconnect"
          /\ on_finish_calls' = on_finish_calls + 1
          /\ IF state.tag = "Fail"
             THEN /\ on_fail_calls' = Append(on_fail_calls, state.index_test)
                  /\ on_pass_calls' = on_pass_calls
                  /\ ResumeCursor(tree') = state.index_test + 1
             ELSE /\ on_pass_calls' = on_pass_calls + 1
                  /\ on_fail_calls' = on_fail_calls
                  /\ ResumeCursor(tree') =
                        IF built.by = "into_runner" THEN built.staggered
                        ELSE built.staggered + 1
          /\ \A k \in (DOMAIN tree \cup DOMAIN tree') \ {KEY_STAGGERED} :
                Get(tree', k) = Get(tree, k)]_vars

\* a run that passed ended in Finish with the hooks
\* called although neither `status` nor `disconnect` could be sent
C28_Witness ==
    /\ pc = "runner"
    /\ state.tag = "Finish"
    /\ on_finish_calls = 1
    /\ on_pass_calls = 1
    /\ Len(frames) >= 3
    /\ frames[Len(frames) - 1].event_type = "status"
    /\ ~frames[Len(frames) - 1].ok
    /\ frames[Len(frames)].event_type = "disconnect"
    /\ ~frames[Len(frames)].ok
    /\ Get(tree, KEY_STAGGERED).tag = "u32"

(***************************************************************************)
(* Properties of the course-tree runner.                                   *)
(***************************************************************************)
\* the index paths of the tests of a list of suites, in order
RECURSIVE SuitePaths(_, _, _, _)
SuitePaths(suites, s, l, u) ==
    IF u >= Len(suites) THEN <<>>
    ELSE [t \in 1..Len(suites[u + 1].tests) |-> <<s, l, u, t - 1>>]
         \o SuitePaths(suites, s, l, u + 1)

RECURSIVE LessonPaths(_, _, _)
LessonPaths(lessons, s, l) ==
    IF l >= Len(lessons) THEN <<>>
    ELSE (IF lessons[l + 1].suites.tag = "Some"
          THEN SuitePaths(lessons[l + 1].suites.some, s, l, 0)
          ELSE <<>>)
         \o LessonPaths(lessons, s, l + 1)

RECURSIVE StagePaths(_, _)
StagePaths(stages, s) ==
    IF s >= Len(stages) THEN <<>>
    ELSE LessonPaths(stages[s + 1].lessons, s, 0) \o StagePaths(stages, s + 1)

\* the index path of every test of the course, in definition order
TestPathsV2(c) == StagePaths(c.stages, 0)

\* C29: the course-tree runner is in Pass only when it has executed every
\* test of every suite of every lesson of every stage once, in definition
\* order.
C29_PassAfterEveryTestV2 ==
    (pc = "runner_v2" /\ state_v2.tag = "Pass")
    => log_v2 = TestPathsV2(course_v2)

\* C30 (what never happens on the way to Finish): the course-tree runner
\* executes no test twice, does not come back to a lesson of which it
\* executed a test, and does not panic on an index out of range.
C30_NoRepeatNoPanicV2 ==
    /\ \A i, j \in 1..Len(log_v2) : i # j => log_v2[i] # log_v2[j]
    /\ (state_v2.tag = "NewSuite" /\ state_v2.index_suite = 0)
       => \A i \in 1..Len(log_v2) :
             <<log_v2[i][1], log_v2[i][2]>>
               # <<state_v2.index_stage, state_v2.index_lesson>>
    /\ state_v2.tag # "Panicked"

(***************************************************************************)
(* Properties of the runner as a sequential driver.                        *)
(***************************************************************************)
\* the number of calls of run() the runner has answered: one for Loaded,
\* one for each test executed, one for Pass or Fail
RunCalls ==
    IF state.tag \in {"NoRunner", "Loaded"} THEN 0
    ELSE IF state.tag = "Finish" THEN Len(log) + 2
    ELSE Len(log) + 1

\* C31: over a subset of n tests the runner reaches Finish after at most
\* n+2 calls of run(): every call is one step of the sequence Loaded, then
\* NewTest with the indices 0, 1, 2, ... in order and at most n of them,
\* then exactly one of Pass or Fail, then Finish.
C31_FinishWithinBound ==
    [][(pc = "runner" /\ state' # state)
       => /\ RunCalls' = RunCalls + 1
          /\ RunCalls' <= Len(tests) + 2
          /\ Len(log') <= Len(tests)
          /\ \A i \in 1..Len(log') : log'[i].index_test = i - 1
          /\ CASE state.tag = "Loaded" ->
                    /\ log' = log
                    /\ state'.tag \in {"NewTest", "Fail"}
                    /\ state'.index_test = 0
               [] state.tag = "NewTest" ->
                    /\ Len(log') = Len(log) + 1
                    /\ state.index_test = Len(log)
                    /\ state'.tag \in {"NewTest", "Fail", "Pass"}
                    /\ state'.tag = "NewTest"
                       => state'.index_test = state.index_test + 1
               [] state.tag \in {"Pass", "Fail"} ->
                    /\ log' = log
                    /\ state' = Finish
                    /\ on_pass_calls' + Len(on_fail_calls') = 1
               [] OTHER -> FALSE]_vars

\* a run over the longest list that executed every test and finished after
\* exactly n+2 calls
C31_Witness ==
    /\ state = Finish
    /\ Len(tests) = MaxRunTests
    /\ Len(log) = MaxRunTests
    /\ RunCalls = MaxRunTests + 2

\* the success values of the `status` frames handed to the websocket
IsStatusFrame(f) == f.event_type = "status"
StatusFrames(fs) ==
    LET sel == SelectSeq(fs, IsStatusFrame)
    IN [i \in 1..Len(sel) |-> sel[i].payload]

\* the index of the test at which the run stopped, 0 when none was executed
StopIndex == IF log = <<>> THEN 0 ELSE log[Len(log)].index_test

\* C32: a run invokes exactly one of on_pass and on_fail, once: no hook and
\* no `status` frame before Pass or Fail; the step out of Pass calls on_pass
\* once and sends status success=true; the step out of Fail calls on_fail
\* once, with the index of the test at which the run stopped (0 for an
\* empty subset), and sends status success=false.
C32_ExactlyOneHook ==
    [][(pc = "runner" /\ state' # state)
       => /\ state.tag \notin {"Pass", "Fail"}
             => /\ on_pass_calls' = 0
                /\ on_fail_calls' = <<>>
                /\ StatusFrames(frames') = <<>>
          /\ state.tag = "Pass"
             => /\ on_pass_calls' = 1
                /\ on_fail_calls' = <<>>
                /\ StatusFrames(frames') = <<TRUE>>
          /\ state.tag = "Fail"
             => /\ on_pass_calls' = 0
                /\ on_fail_calls' = <<StopIndex>>
                /\ StatusFrames(frames') = <<FALSE>>]_vars

\* a run that stopped at its third test and called on_fail with index 2
C32_Witness ==
    /\ state = Finish
    /\ Len(log) = 3
    /\ on_fail_calls = <<2>>
    /\ on_pass_calls = 0
    /\ StatusFrames(frames) = <<FALSE>>

(***************************************************************************)
(* Properties of RecordOutcome.                                            *)
(***************************************************************************)
\* the identity RecordOutcome is called with in the NewTest step
RecordKey == tests[state.index_test + 1].key

\* C33: RecordOutcome changes only the validation state of the record named
\* by the identity: the other fields of that record keep the value the store
\* holds at the call, which need not be the value of the runner's snapshot,
\* and every other record, the TestIndex, the watermark, the cursor and the
\* metadata are unchanged.
C33_RecordOutcomeFrame ==
    [][(pc = "runner" /\ state.tag = "NewTest" /\ state' # state)
       => LET e == log'[Len(log')]
          IN /\ \A k \in ((DOMAIN tree) \cup (DOMAIN tree')) \ {RecordKey} :
                   Get(tree', k) = Get(tree, k)
             /\ e.updated
                => /\ Get(tree, RecordKey).tag = "TestState"
                   /\ Get(tree', RecordKey) =
                         TestVal([Get(tree, RecordKey).test
                                     EXCEPT !.passed = e.result])
             /\ ~e.updated
                => Get(tree', RecordKey) \in {Get(tree, RecordKey), None}]_vars

\* an outcome was recorded for a test whose stored record no longer has the
\* fields of the snapshot: the stored fields were kept
C33_Witness ==
    /\ pc = "runner"
    /\ log # <<>>
    /\ LET e == log[Len(log)]
           snapshot == tests[e.index_test + 1].test
           stored == Get(tree, e.key)
       IN /\ e.updated
          /\ stored.tag = "TestState"
          /\ stored.test.passed = e.result
          /\ stored.test.optional # snapshot.optional
          /\ stored.test.name # snapshot.name

(***************************************************************************)
(* Properties of finished machines.                                        *)
(***************************************************************************)
\* the machine main is driving is in its final state
MachineFinished ==
    \/ pc = "runner" /\ state = Finish
    \/ pc = "validator" /\ vstate = VFinish
    \/ pc = "lister" /\ state_l = LFinished

\* C34: Finish is absorbing and silent in the runner, the validator and the
\* lister: a call of run() in Finish (Finished for the lister) returns the
\* same state, invokes no hook, sends no frame, executes no command, prints
\* no test and writes nothing to the store.
C34_FinishIsAbsorbing ==
    [][(MachineFinished /\ finish_runs' # finish_runs)
       => /\ MachineFinished'
          /\ UNCHANGED <<state, vstate, state_l, pc>>
          /\ UNCHANGED <<on_pass_calls, on_fail_calls, on_finish_calls>>
          /\ UNCHANGED <<frames, log, score, success, tests>>
          /\ UNCHANGED <<checked, listed, tests_l>>
          /\ UNCHANGED <<tree, exit_code>>]_vars

\* run() was called MaxFinishRuns times on a runner that had finished a run
\* in which a test was executed
C34_Witness ==
    /\ pc = "runner"
    /\ state = Finish
    /\ finish_runs = MaxFinishRuns
    /\ log # <<>>
    /\ on_finish_calls = 1

(***************************************************************************)
(* Properties of identities.                                               *)
(***************************************************************************)
\* the records the test list of the course file associates with a name
RecordsNamed(c, name) ==
    {TestVal(test) : test \in {x \in Range(list_tests_v2(c))
                                  : TestNameOf(x) = name}}

\* C35: a reconciliation that completes stores, under each identity that is
\* only in the new set, the record that the new test list associates with
\* that identity, never the record of another test of the list.
C35_NewIdentityGetsOwnRecord ==
    [][(invocations' = invocations + 1 /\ reconciled')
       => \A i \in 1..Len(list_tests_v2(course_v2')) :
             LET name == TestNameOf(list_tests_v2(course_v2')[i])
             IN name \notin Range(tests_old')
                => Get(tree', ScaleEncode(name))
                      \in RecordsNamed(course_v2', name)]_vars

\* the tests written in a tester definition of one section and one lesson
TestsWritten(def) ==
    LET written == def.sections[1].lessons[1].tests
    IN IF written.tag = "Some" THEN written.some ELSE <<>>

\* the identity list_tests gives the i-th test written in such a definition
KeyWritten(def, i) ==
    TestKey(def.course_name, def.sections[1], def.sections[1].lessons[1],
            TestsWritten(def)[i])

\* C36: listing the tests of a course definition yields one registry entry
\* per test: two tests with different name paths never get the same
\* identity, so when the tests written have pairwise different name paths,
\* the index stored by a first reconciliation has as many entries as the
\* definition has tests.
C36_OneEntryPerTest ==
    [][(invocations' = invocations + 1 /\ reconciled'
        /\ Get(tree, KEY_TESTS).tag = "None")
       => LET written == TestsWritten(tester')
              distinct == \A i, j \in 1..Len(written) :
                             i # j => written[i].name # written[j].name
          IN /\ \A i, j \in 1..Len(written) :
                   written[i].name # written[j].name
                   => KeyWritten(tester', i) # KeyWritten(tester', j)
             /\ distinct
                => Len(StoredTestNames(tree')) = Len(written)]_vars

\* C37: on every course tree the parser accepts, the validator reaches
\* Finish within one step per node plus three, visits the nodes in
\* depth-first definition order, each at most once, and never indexes a
\* list out of range.  Every step that visits a node prints one line, so
\* the lines printed list the visits.
C37_ValidatorWalkIsBounded ==
    vstate # NoValidator
    => /\ vstate # VPanicked
       /\ Len(checked) <= Cardinality(CourseNodes)
       /\ \A m, n \in 1..Len(checked) :
             m < n => LexLess(checked[m].path, checked[n].path)

(***************************************************************************)
(* Properties of the staggered cursor.                                     *)
(***************************************************************************)
\* the cursor a staggered build starts from: the value stored under
\* KEY_STAGGERED, 1 when there is none (monitor.rs:178-194)
StartCursor(t) ==
    IF Get(t, KEY_STAGGERED).tag = "u32" THEN Get(t, KEY_STAGGERED).num
    ELSE 1

LogFrames == SelectSeq(frames, IsLogFrame)

\* the executions whose update of the store succeeded
UpdatedLog == SelectSeq(log, IsRecorded)

\* C39: the outcome of every executed test is written to the store before
\* its `log` frame is sent: at every point of a run the `log` frames handed
\* to the websocket are those of the executions whose update succeeded, in
\* order, and the outcome each of them carries is the validation state the
\* store holds for that test, whether the websocket accepted the frame or
\* not.
C39_StoredBeforeStreamed ==
    state # NoRunner
    => /\ Len(LogFrames) = Len(UpdatedLog)
       /\ \A i \in 1..Len(LogFrames) :
             LET stored == Get(tree, UpdatedLog[i].key)
             IN /\ LogFrames[i].payload.state
                      = (IF UpdatedLog[i].result = "Pass" THEN "Passed"
                         ELSE "Failed")
                /\ stored.tag = "TestState"
                /\ stored.test.passed = UpdatedLog[i].result

\* the websocket refused the `log` frame of a test, the run has ended in
\* Fail, and the store holds the outcome of that test
C39_Witness ==
    /\ state.tag = "Finish"
    /\ on_fail_calls # <<>>
    /\ LogFrames # <<>>
    /\ ~LogFrames[Len(LogFrames)].ok
    /\ Get(tree, UpdatedLog[Len(UpdatedLog)].key).tag = "TestState"
    /\ Get(tree, UpdatedLog[Len(UpdatedLog)].key).test.passed
          = UpdatedLog[Len(UpdatedLog)].result

(***************************************************************************)
(* Properties of a fetch and of a listing over an index with an identity   *)
(* that has no record.                                                     *)
(***************************************************************************)
\* one of the identities has no record in the store
MissingIn(t, keys) == \E i \in 1..Len(keys) : Get(t, keys[i]).tag = "None"

\* the step builds a runner from tests_accumulate_all
BuildsFromAll ==
    /\ pc = "monitor"
    /\ pc' = "runner"
    /\ built'.by = "into_runner"
    /\ command' = "test --all"

\* the step builds a runner from tests_accumulate_some
BuildsFromWindow ==
    /\ pc = "monitor"
    /\ pc' = "runner"
    /\ built'.by = "into_runner_staggered"

\* a runner over an empty work list goes Loaded, Fail ("no tests found"),
\* Finish and executes nothing
EmptyRunFails ==
    (pc = "runner" /\ tests = <<>>)
    => /\ log' = <<>>
       /\ state' # state
          => \/ state = Loaded /\ state' = Fail(0, "no tests found")
             \/ state.tag = "Fail" /\ state' = Finish

\* the lister stops with Error at an identity that has no record, and
\* prints nothing once it is in Error
ListerStopsAtMissing ==
    /\ (pc = "lister" /\ state_l.tag = "List"
        /\ Get(tree, tests_l[state_l.index_test + 1]).tag = "None")
       => /\ state_l' = LError(tests_l[state_l.index_test + 1])
          /\ listed' = listed
    /\ (pc = "lister" /\ state_l.tag = "Error")
       => /\ state_l'.tag \in {"Error", "Finished"}
          /\ listed' = listed
    /\ (pc = "lister" /\ state_l.tag = "Finished") => listed' = listed

\* C40 as stated: when an identity of the index has no record in the store,
\* tests_accumulate_all and tests_accumulate_some return an empty list
\* without error, the runner goes Loaded, Fail ("no tests found"), Finish
\* and executes no test; the lister stops at that identity with Error and
\* lists no later test.
C40_MissingRecordEmptiesFetch ==
    [][/\ ((BuildsFromAll \/ BuildsFromWindow)
           /\ MissingIn(tree', StoredTestNames(tree')))
          => tests' = <<>> /\ fetched' = <<>> /\ state' = Loaded
       /\ EmptyRunFails
       /\ ListerStopsAtMissing]_vars

\* C40 amended: when an identity the fetch reads has no record in the
\* store, any identity of the index for tests_accumulate_all and one of the
\* first n for tests_accumulate_some(n), the fetch returns an empty list
\* without error, the runner goes Loaded, Fail ("no tests found"), Finish
\* and executes no test; the lister stops at the first identity without
\* record with Error and lists no later test.
C40_MissingReadRecordEmptiesFetch ==
    [][/\ (BuildsFromAll /\ MissingIn(tree', StoredTestNames(tree')))
          => tests' = <<>> /\ fetched' = <<>> /\ state' = Loaded
       /\ (BuildsFromWindow
           /\ MissingIn(tree', Take(StoredTestNames(tree'),
                                    built'.staggered)))
          => tests' = <<>> /\ fetched' = <<>> /\ state' = Loaded
       /\ EmptyRunFails
       /\ ListerStopsAtMissing]_vars

\* a staggered run whose window held an identity without record has
\* finished through Fail without executing a test
C40_Witness ==
    /\ pc = "runner"
    /\ built.by = "into_runner_staggered"
    /\ MissingIn(tree, Take(StoredTestNames(tree), built.staggered))
    /\ built.staggered >= 2
    /\ tests = <<>>
    /\ log = <<>>
    /\ state = Finish
    /\ on_fail_calls = <<0>>

====
